---- MODULE Spec2Model ----
(***************************************************************************)
(* Model of the multi-signal conviction scoring engine                     *)
(* (src/src/scoring/conviction_engine.py).                                 *)
(*                                                                         *)
(* Arithmetic is fixed point.  A score is an integer number of             *)
(* thousandths of a point (60.004 is 60004), so that round(x, 2) is a real *)
(* rounding step.  A weight is an integer number of hundredths (0.20 is    *)
(* 20); the engine's weight table is kept as numerators over one common    *)
(* denominator, weight[k] = num[k] / den, which represents v / total       *)
(* exactly.                                                                *)
(***************************************************************************)
EXTENDS Integers, Sequences, FiniteSets, TLC

VARIABLES
    config,             \* self.config
    weights,            \* self.weights, as [num |-> table, den |-> n]
    dark_signal_keys,   \* self.dark_signal_keys, a list
    dark_flow_min,      \* self.dark_flow_min
    strong_signal_min,  \* self.strong_signal_min
    pc,                 \* "idle", or the operation that has just returned
    stock_data,         \* argument of calculate_conviction_score / assess_risk
    result,             \* what calculate_conviction_score returned or raised
    risk,               \* what assess_risk returned or raised
    level_arg,          \* argument of get_position_size
    position,           \* what get_position_size returned
    stocks_data,        \* argument of score_batch
    results,            \* what score_batch returned
    ppc,                \* "idle", or the signal producer that has just returned
    call,               \* the producer call: ticker, entry point, configuration
    upstream,           \* what the producer's data source answered
    out,                \* what the producer's analyze call returned or raised
    threads,            \* per pool worker: its call on the shared engine
    tickers,            \* run_analysis: the list of tickers submitted
    signal_detectors,   \* self.signal_detectors: the detectors installed
    futures,            \* per submitted ticker: its future, and what it met
    completed_count,    \* completed_count[0]
    analyzed_stocks,    \* stock dicts recorded as analysed
    failed_stocks,      \* (ticker, message) pairs recorded as failed
    progress_lock,      \* 0, or the future the main thread records under the lock
    phase,              \* "idle", "pool", "finished" or "aborted"
    clock,              \* datetime.utcnow(), in hours
    _cache,             \* SocialSentimentScorer._cache
    _history,           \* SocialSentimentScorer._history
    fetch_log,          \* the outcomes of the scorer's fetches, oldest first
    last_call,          \* the scorer's last analyze_stock call and its result
    sec,                \* the SEC period files, a list of rows each
    finra,              \* the FINRA daily files, a list of rows each
    _ftd_cache,         \* FTDShortTracker._ftd_cache: symbol -> records
    _short_volume_cache,\* FTDShortTracker._short_volume_cache: symbol -> records
    loaders,            \* per pool worker: its analyze_stock call on the tracker
    filters,            \* StockRanker.filters
    rpc,                \* "idle", or the ranker operation that has just returned
    ranker_arg,         \* argument of apply_filters / rank_stocks
    ranker_out,         \* what the ranker returned
    fn,                 \* "idle", or the static helper that has just returned
    fn_arg,             \* its argument
    fn_out,             \* what it returned
    wall,               \* time.time() since the congress tracker was built, in watches
    _cached_trades,     \* CongressTradesTracker._cached_trades
    _cache_timestamp,   \* CongressTradesTracker._cache_timestamp
    requests_sent,      \* HTTP requests the congress tracker has issued
    fetched,            \* the last call of the congress tracker
    mono,               \* time.monotonic(), in halves of rate_limit_delay
    _last_request_time, \* InsiderFlowDetector._last_request_time
    callers,            \* the workers inside _rate_limit of the one detector
    request_times       \* the times at which SEC requests were issued

vars == <<config, weights, dark_signal_keys, dark_flow_min, strong_signal_min,
          pc, stock_data, result, risk, level_arg, position, stocks_data,
          results, ppc, call, upstream, out, threads, tickers,
          signal_detectors, futures, completed_count, analyzed_stocks,
          failed_stocks, progress_lock, phase, clock, _cache, _history,
          fetch_log, last_call, sec, finra, _ftd_cache, _short_volume_cache,
          loaders,
          filters, rpc, ranker_arg, ranker_out,
          fn, fn_arg, fn_out,
          wall, _cached_trades, _cache_timestamp, requests_sent, fetched,
          mono, _last_request_time, callers, request_times>>

engine == <<config, weights, dark_signal_keys, dark_flow_min, strong_signal_min>>

\* the engine with its caller, and the signal producers with theirs
engine_side == <<engine, pc, stock_data, result, risk, level_arg, position,
                 stocks_data, results>>
producer_side == <<ppc, call, upstream, out>>
pool_side == <<threads>>
run_side == <<tickers, signal_detectors, futures, completed_count,
              analyzed_stocks, failed_stocks, progress_lock, phase>>
scorer_side == <<clock, _cache, _history, fetch_log, last_call>>
tracker_side == <<sec, finra, _ftd_cache, _short_volume_cache, loaders>>
cache_side == <<scorer_side, tracker_side>>
ranker_side == <<filters, rpc, ranker_arg, ranker_out>>
helper_side == <<fn, fn_arg, fn_out>>
congress_side == <<wall, _cached_trades, _cache_timestamp, requests_sent, fetched>>
limiter_side == <<mono, _last_request_time, callers, request_times>>
rest_side == <<ranker_side, helper_side, congress_side, limiter_side>>

\* what the operations of one component leave alone
outside_engine == <<producer_side, pool_side, run_side, cache_side, rest_side>>
outside_producers == <<engine_side, pool_side, run_side, cache_side, rest_side>>
outside_pool == <<engine_side, producer_side, run_side, cache_side, rest_side>>
outside_run == <<engine_side, producer_side, pool_side, cache_side, rest_side>>
outside_scorer == <<engine_side, producer_side, pool_side, run_side, tracker_side, rest_side>>
outside_tracker == <<engine_side, producer_side, pool_side, run_side, scorer_side, rest_side>>
outside_ranker == <<engine_side, producer_side, pool_side, run_side, cache_side, helper_side, congress_side, limiter_side>>
outside_helper == <<engine_side, producer_side, pool_side, run_side, cache_side, ranker_side, congress_side, limiter_side>>
outside_congress == <<engine_side, producer_side, pool_side, run_side, cache_side, ranker_side, helper_side, limiter_side>>
outside_limiter == <<engine_side, producer_side, pool_side, run_side, cache_side, ranker_side, helper_side, congress_side>>

(***************************************************************************)
(* Bounds of the model.                                                    *)
(***************************************************************************)
MaxOverrides == 1   \* score keys changed on top of a base dict
MaxBatch == 2       \* length of a score_batch input list

(***************************************************************************)
(* Units.                                                                  *)
(***************************************************************************)
Pts(n) == n * 1000          \* n points, in thousandths
Cents(n) == n * 10          \* n hundredths of a point, in thousandths
WOne == 100                 \* the weight 1.0, in hundredths

(***************************************************************************)
(* Module constants of conviction_engine.py.                               *)
(***************************************************************************)
KeyOrder == <<"insider_flow", "dark_pool", "options_flow", "fundamental",
              "technical", "congress", "social", "ftd_short", "whale_13f",
              "volatility">>

WeightKeys == {KeyOrder[i] : i \in 1..Len(KeyOrder)}

DEFAULT_WEIGHTS ==
    [k \in WeightKeys |->
        CASE k = "insider_flow" -> 20
          [] k = "dark_pool"    -> 15
          [] k = "options_flow" -> 15
          [] k = "fundamental"  -> 15
          [] k = "technical"    -> 10
          [] OTHER              -> 5]

WEIGHT_TO_SCORE_KEY ==
    [k \in WeightKeys |->
        CASE k = "insider_flow" -> "insider_signal_score"
          [] k = "dark_pool"    -> "darkpool_signal_score"
          [] k = "options_flow" -> "options_signal_score"
          [] k = "congress"     -> "congress_signal_score"
          [] k = "ftd_short"    -> "ftd_signal_score"
          [] k = "social"       -> "social_signal_score"
          [] k = "technical"    -> "technical_score"
          [] k = "fundamental"  -> "fundamental_score"
          [] k = "volatility"   -> "volatility_score"
          [] k = "whale_13f"    -> "whale_13f_signal_score"]

ScoreKeys == {WEIGHT_TO_SCORE_KEY[k] : k \in WeightKeys}

DEFAULT_DARK_SIGNAL_KEYS ==
    <<"insider_flow", "dark_pool", "options_flow", "congress", "ftd_short">>

\* a missing score counted as zero
NEUTRAL_SCORE_Zero == Pts(0)

NEUTRAL_SCORE == Pts(50)
ACTIVE_THRESHOLD == Pts(60)

DARK_FLOW_ALERT == "DARK_FLOW_ALERT"
STRONG_SIGNAL == "STRONG_SIGNAL"
SINGLE_SIGNAL == "SINGLE_SIGNAL"
TECHNICAL_ONLY == "TECHNICAL_ONLY"

Levels == {DARK_FLOW_ALERT, STRONG_SIGNAL, SINGLE_SIGNAL, TECHNICAL_ONLY}

\* the two bonuses exchanged
CONFLUENCE_BONUS_Swapped(level) ==
    CASE level = DARK_FLOW_ALERT -> 8
      [] level = STRONG_SIGNAL   -> 15
      [] OTHER                   -> 0

\* CONFLUENCE_BONUS.get(level, 0), in points
CONFLUENCE_BONUS(level) ==
    CASE level = DARK_FLOW_ALERT -> 15
      [] level = STRONG_SIGNAL   -> 8
      [] level = SINGLE_SIGNAL   -> 0
      [] level = TECHNICAL_ONLY  -> 0
      [] OTHER                   -> 0

\* POSITION_SIZE_MAP, (min_pct, max_pct) in percent
POSITION_SIZE_MAP ==
    [l \in Levels |->
        CASE l = DARK_FLOW_ALERT -> <<10, 15>>
          [] l = STRONG_SIGNAL   -> <<5, 10>>
          [] l = SINGLE_SIGNAL   -> <<3, 5>>
          [] l = TECHNICAL_ONLY  -> <<0, 0>>]

\* MAX_ALLOCATION_MAP.get(level, 0.0), in percent
MAX_ALLOCATION_MAP(level) ==
    CASE level = DARK_FLOW_ALERT -> 15
      [] level = STRONG_SIGNAL   -> 10
      [] level = SINGLE_SIGNAL   -> 5
      [] level = TECHNICAL_ONLY  -> 0
      [] OTHER                   -> 0

(***************************************************************************)
(* Python values that can sit in a stock_data dict.                        *)
(*   num   a finite int or float, v thousandths of a point                 *)
(*   nan   float('nan')                                                    *)
(*   huge  an int too large for a float (10**400)                          *)
(*   str   a string, s its characters                                      *)
(*   list  an object float() rejects with TypeError                        *)
(*   none  None                                                            *)
(***************************************************************************)
Num(v) == [t |-> "num", v |-> v, s |-> <<>>]
Nan == [t |-> "nan", v |-> 0, s |-> <<>>]
Huge == [t |-> "huge", v |-> 0, s |-> <<>>]
Str(s) == [t |-> "str", v |-> 0, s |-> s]
List == [t |-> "list", v |-> 0, s |-> <<>>]
None == [t |-> "none", v |-> 0, s |-> <<>>]

\* dict.get(key) is None: the key is absent or holds None
Get(d, key) == IF key \in DOMAIN d THEN d[key] ELSE None

(***************************************************************************)
(* float(raw): a float, or the exception raised.  A string converts when   *)
(* it is a non-empty run of decimal digits (the numerals of this model).   *)
(***************************************************************************)
Digits == <<"0", "1", "2", "3", "4", "5", "6", "7", "8", "9">>

IsDigit(c) == \E i \in 1..Len(Digits) : Digits[i] = c

DigitValue(c) == (CHOOSE i \in 1..Len(Digits) : Digits[i] = c) - 1

RECURSIVE ParseInt(_)
ParseInt(s) ==
    IF s = <<>> THEN 0
    ELSE 10 * ParseInt(SubSeq(s, 1, Len(s) - 1)) + DigitValue(s[Len(s)])

Fin(v) == [st |-> "ok", nan |-> FALSE, v |-> v]
NaN == [st |-> "ok", nan |-> TRUE, v |-> 0]
Raise(e) == [st |-> e, nan |-> FALSE, v |-> 0]

ToFloat(raw) ==
    CASE raw.t = "num"  -> Fin(raw.v)
      [] raw.t = "nan"  -> NaN
      [] raw.t = "huge" -> Raise("OverflowError")
      [] raw.t = "str"  ->
            IF raw.s # <<>> /\ \A i \in 1..Len(raw.s) : IsDigit(raw.s[i])
            THEN Fin(Pts(ParseInt(raw.s)))
            ELSE Raise("ValueError")
      [] OTHER          -> Raise("TypeError")

\* float comparisons: every comparison with nan is False
Lt(a, b) == ~a.nan /\ ~b.nan /\ a.v < b.v
Gt(a, b) == Lt(b, a)

\* Python's min(a, b) and max(a, b) on two floats
PyMin(a, b) == IF Lt(b, a) THEN b ELSE a
PyMax(a, b) == IF Gt(b, a) THEN b ELSE a

\* n / d (n >= 0, d > 0) rounded to the nearest integer, a tie to the even
\* one as round() does.  No input of this model yields an exact tie, where
\* the float result would hang on representation error.
RoundHalfEven(n, d) ==
    LET q == n \div d
        r == n % d
    IN  IF 2 * r < d THEN q
        ELSE IF 2 * r > d THEN q + 1
        ELSE IF q % 2 = 0 THEN q ELSE q + 1

\* n / d thousandths rounded to a whole number of hundredths
Round2(n, d) == Cents(RoundHalfEven(n, Cents(d)))

(***************************************************************************)
(* Weight loading.                                                         *)
(***************************************************************************)
RECURSIVE SumWeights(_, _)
SumWeights(w, i) ==
    IF i = 0 THEN 0 ELSE SumWeights(w, i - 1) + w[KeyOrder[i]]

\* config.get(name, default)
ConfigGet(cfg, name, default) ==
    IF name \in cfg.keys THEN cfg[name] ELSE default

\* A weight table that sums to 1.0 as it stands
Table(w) == [num |-> w, den |-> WOne]

\* {k: v / total for k, v in weights.items()}
Normalized(w, total) == [num |-> w, den |-> total]

\* weights taken as configured, never divided by their sum
_load_weights_Unnormalized(cfg) ==
    LET raw == ConfigGet(cfg, "weights", DEFAULT_WEIGHTS)
        w == [k \in WeightKeys |->
                 IF k \in DOMAIN raw THEN raw[k] ELSE DEFAULT_WEIGHTS[k]]
    IN  IF SumWeights(w, Len(KeyOrder)) <= 0 THEN Table(DEFAULT_WEIGHTS)
        ELSE Table(w)

\* ConvictionEngine._load_weights.  Configured weights are multiples of
\* 0.01, for which abs(total - 1.0) > 1e-6 is total # 1.0.
_load_weights(cfg) ==
    LET raw == ConfigGet(cfg, "weights", DEFAULT_WEIGHTS)
        w == [k \in WeightKeys |->
                 IF k \in DOMAIN raw THEN raw[k] ELSE DEFAULT_WEIGHTS[k]]
        total == SumWeights(w, Len(KeyOrder))
    IN  IF total <= 0 THEN Table(DEFAULT_WEIGHTS)
        ELSE IF total # WOne THEN Normalized(w, total)
        ELSE Table(w)

(***************************************************************************)
(* Core scoring.                                                           *)
(***************************************************************************)
\* the upper clamp left out
Clamp_NoUpper(value) == PyMax(Fin(0), value)

\* max(0.0, min(100.0, value))
Clamp(value) == PyMax(Fin(0), PyMin(Fin(Pts(100)), value))

\* ConvictionEngine._get_signal_score: a float, or the exception that
\* float() raised and the handler does not catch
_get_signal_score(sd, weight_key) ==
    IF weight_key \notin DOMAIN WEIGHT_TO_SCORE_KEY THEN Fin(NEUTRAL_SCORE)
    ELSE LET raw == Get(sd, WEIGHT_TO_SCORE_KEY[weight_key])
             value == ToFloat(raw)
         IN  IF raw.t = "none" THEN Fin(NEUTRAL_SCORE)
             ELSE IF value.st \in {"TypeError", "ValueError"}
                  THEN Fin(NEUTRAL_SCORE)
             ELSE IF value.st # "ok" THEN value
             ELSE Clamp(value)

\* _detect_active_dark_signals that passes over a score of 100
_detect_active_dark_signals_Capped(signal_scores) ==
    SelectSeq(dark_signal_keys,
              LAMBDA key :
                  /\ (IF key \in DOMAIN signal_scores THEN signal_scores[key]
                      ELSE NEUTRAL_SCORE) > ACTIVE_THRESHOLD
                  /\ (IF key \in DOMAIN signal_scores THEN signal_scores[key]
                      ELSE NEUTRAL_SCORE) < Pts(100))

\* ConvictionEngine._detect_active_dark_signals
_detect_active_dark_signals(signal_scores) ==
    SelectSeq(dark_signal_keys,
              LAMBDA key :
                  (IF key \in DOMAIN signal_scores THEN signal_scores[key]
                   ELSE NEUTRAL_SCORE) > ACTIVE_THRESHOLD)

\* the alert threshold compared with > instead of >=
get_conviction_level_Strict(score, active_signals) ==
    LET count == Len(active_signals)
    IN  IF count > dark_flow_min THEN DARK_FLOW_ALERT
        ELSE IF count >= strong_signal_min THEN STRONG_SIGNAL
        ELSE IF count >= 1 THEN SINGLE_SIGNAL
        ELSE TECHNICAL_ONLY

\* ConvictionEngine.get_conviction_level
get_conviction_level(score, active_signals) ==
    LET count == Len(active_signals)
    IN  IF count >= dark_flow_min THEN DARK_FLOW_ALERT
        ELSE IF count >= strong_signal_min THEN STRONG_SIGNAL
        ELSE IF count >= 1 THEN SINGLE_SIGNAL
        ELSE TECHNICAL_ONLY

\* the band returned as (max_pct, min_pct)
get_position_size_Swapped(conviction_level) ==
    IF conviction_level \in DOMAIN POSITION_SIZE_MAP
    THEN <<POSITION_SIZE_MAP[conviction_level][2],
           POSITION_SIZE_MAP[conviction_level][1]>>
    ELSE <<0, 0>>

\* ConvictionEngine.get_position_size
get_position_size(conviction_level) ==
    IF conviction_level \in DOMAIN POSITION_SIZE_MAP
    THEN POSITION_SIZE_MAP[conviction_level]
    ELSE <<0, 0>>

\* ConvictionEngine._build_label, as (text, count or names)
_build_label(level, count, active) ==
    CASE level = DARK_FLOW_ALERT -> <<"Dark Flow Alert", count, <<>>>>
      [] level = STRONG_SIGNAL   -> <<"Strong Signal", 0, active>>
      [] level = SINGLE_SIGNAL   -> <<"Single Signal", 0, active>>
      [] OTHER                   -> <<"Technical Only", 0, <<>>>>

(***************************************************************************)
(* Risk assessment.                                                        *)
(***************************************************************************)
NoFloat == [st |-> "none", nan |-> FALSE, v |-> 0]

\* ConvictionEngine._safe_float; NoFloat stands for a default of None
_safe_float(value, default) ==
    IF value.t = "none" THEN default
    ELSE LET f == ToFloat(value)
         IN  IF f.st \in {"TypeError", "ValueError"} THEN default ELSE f

signal_pairs ==
    <<"insider_signal_score", "options_signal_score",
      "darkpool_signal_score", "congress_signal_score">>

\* "high" already at two risk points
RiskLevel_HighAtTwo(risk_points) ==
    IF risk_points >= 2 THEN "high"
    ELSE IF risk_points >= 1 THEN "medium"
    ELSE "low"

\* the level assess_risk returns for a number of risk points
RiskLevel(risk_points) ==
    IF risk_points >= 3 THEN "high"
    ELSE IF risk_points >= 1 THEN "medium"
    ELSE "low"

\* ConvictionEngine.assess_risk: [st |-> "ok", level], or the exception
assess_risk(sd) ==
    LET vol_score == _safe_float(Get(sd, "volatility_score"),
                                 Fin(NEUTRAL_SCORE))
        idx == 1..Len(signal_pairs)
        val == [i \in idx |-> _safe_float(Get(sd, signal_pairs[i]), NoFloat)]
        bullish == {i \in idx : val[i].st = "ok" /\ Gt(val[i], Fin(Pts(60)))}
        bearish == {i \in idx : val[i].st = "ok"
                                /\ ~Gt(val[i], Fin(Pts(60)))
                                /\ Lt(val[i], Fin(Pts(40)))}
        tech == _safe_float(Get(sd, "technical_score"), NoFloat)
        fund == _safe_float(Get(sd, "fundamental_score"), NoFloat)
        diff == IF tech.v >= fund.v THEN tech.v - fund.v
                ELSE fund.v - tech.v
        vol_points == IF Gt(vol_score, Fin(Pts(70))) THEN 2
                      ELSE IF Gt(vol_score, Fin(Pts(55))) THEN 1
                      ELSE 0
        conflict_points == IF bullish # {} /\ bearish # {} THEN 2 ELSE 0
        diverge_points ==
            IF tech.st = "ok" /\ fund.st = "ok"
               /\ ~tech.nan /\ ~fund.nan /\ diff > Pts(30)
            THEN 1 ELSE 0
        raised == \/ vol_score.st \notin {"ok", "none"}
                  \/ \E i \in idx : val[i].st \notin {"ok", "none"}
                  \/ tech.st \notin {"ok", "none"}
                  \/ fund.st \notin {"ok", "none"}
    IN  IF raised THEN [st |-> "OverflowError", level |-> ""]
        ELSE [st |-> "ok",
              level |-> RiskLevel(vol_points + conflict_points
                                  + diverge_points)]

(***************************************************************************)
(* calculate_conviction_score.                                             *)
(***************************************************************************)
\* sum of score * numerator over the first i weight keys
RECURSIVE WeightedNum(_, _)
WeightedNum(scores, i) ==
    IF i = 0 THEN 0
    ELSE WeightedNum(scores, i - 1)
         + scores[KeyOrder[i]].v * weights.num[KeyOrder[i]]

Raised(e) == [st |-> e]

\* min(100.0, max(0.0, weighted_sum + bonus)) on numerators over den
ClampNum(n, den) ==
    LET lo == IF n < 0 THEN 0 ELSE n
    IN  IF lo > Pts(100) * den THEN Pts(100) * den ELSE lo

\* steps 3 and 4 of calculate_conviction_score and its return value
Compose(sd, signal_scores, weighted_sum, active_dark_signals, level) ==
    LET active_count == Len(active_dark_signals)
        bonus == CONFLUENCE_BONUS(level)
        conviction_score ==
            ClampNum(weighted_sum + Pts(bonus) * weights.den, weights.den)
        max_allocation == MAX_ALLOCATION_MAP(level)
    IN  [st |-> "ok",
         conviction_score |-> Round2(conviction_score, weights.den),
         conviction_level |-> level,
         conviction_label |->
             _build_label(level, active_count,
                          active_dark_signals),
         active_dark_signals |-> active_dark_signals,
         active_dark_signal_count |-> active_count,
         signal_scores |-> signal_scores,
         position_size_pct |-> get_position_size(level)[1],
         max_allocation_pct |-> max_allocation,
         risk_level |-> assess_risk(sd).level]

\* step 2 of calculate_conviction_score
Confluence(sd, signal_scores, weighted_sum, active_dark_signals) ==
    Compose(sd, signal_scores, weighted_sum, active_dark_signals,
            get_conviction_level(weighted_sum, active_dark_signals))

\* step 1 of calculate_conviction_score, given the score of every key
Contributions(sd, score) ==
    IF \E k \in WeightKeys : score[k].st # "ok"
    THEN Raised("OverflowError")
    ELSE LET signal_scores == [k \in WeightKeys |-> Round2(score[k].v, 1)]
         IN  Confluence(sd, signal_scores,
                        WeightedNum(score, Len(KeyOrder)),
                        _detect_active_dark_signals(signal_scores))

\* ConvictionEngine.calculate_conviction_score: the result dict, or the
\* exception raised.  assess_risk reads keys that step 1 has converted, so
\* it cannot raise once step 1 has passed.
calculate_conviction_score(sd) ==
    Contributions(sd, [k \in WeightKeys |-> _get_signal_score(sd, k)])

(***************************************************************************)
(* Batch scoring.                                                          *)
(***************************************************************************)
UNKNOWN == Str(<<"U", "N", "K", "N", "O", "W", "N">>)

\* stock_data.get('ticker', 'UNKNOWN')
TickerOf(sd) == IF "ticker" \in DOMAIN sd THEN sd["ticker"] ELSE UNKNOWN

\* the failed item appended like any other
BatchStep_NoSkip(acc, sd) ==
    Append(acc, [res |-> calculate_conviction_score(sd),
                 ticker |-> TickerOf(sd)])

\* one turn of the loop of score_batch: the results list after the item
BatchStep(acc, sd) ==
    LET r == calculate_conviction_score(sd)
    IN  IF r.st = "ok"
        THEN Append(acc, [res |-> r, ticker |-> TickerOf(sd)])
        ELSE acc

\* ConvictionEngine.score_batch
RECURSIVE score_batch(_)
score_batch(list) ==
    IF list = <<>> THEN <<>>
    ELSE BatchStep(score_batch(SubSeq(list, 1, Len(list) - 1)),
                   list[Len(list)])

(***************************************************************************)
(* Configurations the engine is constructed with.  keys is the set of keys *)
(* the config dict holds; a field outside keys is not read.                *)
(***************************************************************************)
Config(keys, w, dk, dmin, smin) ==
    [keys |-> keys, weights |-> w, dark_signal_keys |-> dk,
     dark_flow_alert_min_signals |-> dmin, strong_signal_min_signals |-> smin]

NoWeights == [k \in {} |-> 0]

Configs ==
    { Config({}, NoWeights, <<>>, 0, 0),
      Config({"weights"},
             [k \in {"insider_flow", "dark_pool"} |-> 40], <<>>, 0, 0),
      Config({"weights"}, [k \in WeightKeys |-> 0], <<>>, 0, 0),
      Config({"weights"}, [k \in {"social"} |-> 0], <<>>, 0, 0),
      Config({"weights"}, [k \in {"dark_pool"} |-> 0 - 50], <<>>, 0, 0),
      Config({"dark_signal_keys", "dark_flow_alert_min_signals",
              "strong_signal_min_signals"},
             NoWeights, <<"insider_flow", "social", "short_interest">>, 2, 1),
      Config({"dark_flow_alert_min_signals", "strong_signal_min_signals"},
             NoWeights, <<>>, 4, 3) }

(***************************************************************************)
(* Input dicts: a base dict with up to MaxOverrides score keys replaced.   *)
(***************************************************************************)
EmptyDict == [k \in {} |-> None]

TEST == Str(<<"T", "E", "S", "T">>)

\* _make_stock of the engine's tests with every score at n points
MakeStock(n) ==
    [k \in (ScoreKeys \ {"whale_13f_signal_score"}) \cup {"ticker"} |->
        IF k = "ticker" THEN TEST ELSE Num(Pts(n))]

\* base dicts: the empty dict and the fixtures of the engine's tests
TwoDark ==
    [MakeStock(50) EXCEPT !["insider_signal_score"] = Num(Pts(75)),
                          !["darkpool_signal_score"] = Num(Pts(80))]

ThreeDark ==
    [TwoDark EXCEPT !["options_signal_score"] = Num(Pts(65))]

Conflict ==
    [MakeStock(50) EXCEPT !["insider_signal_score"] = Num(Pts(80)),
                          !["options_signal_score"] = Num(Pts(30))]

Bases ==
    {EmptyDict, MakeStock(50), MakeStock(100), TwoDark, ThreeDark, Conflict}

\* numbers: below range, low, on the activity threshold, just above it (and
\* below the next hundredth), active, above range
NumericValues ==
    { Num(0 - Pts(50)), Num(Pts(30)), Num(Pts(60)), Num(Pts(60) + 4),
      Num(Pts(75)), Num(Pts(200)) }

\* values that are no finite number
MalformedValues ==
    { None, List, Str(<<"b", "a", "d">>), Str(<<"7", "5">>), Nan, Huge }

KeySets(keys) == {T \in SUBSET keys : Cardinality(T) <= MaxOverrides}

\* overrides of the given keys, all numbers or all malformed
OverridesOf(keys) ==
    UNION {[S -> NumericValues] \cup [S -> MalformedValues] :
              S \in KeySets(keys)}

StockInputs == {ov @@ b : ov \in OverridesOf(ScoreKeys), b \in Bases}

\* the keys assess_risk reads
RiskKeys ==
    {signal_pairs[i] : i \in 1..Len(signal_pairs)}
        \cup {"volatility_score", "technical_score", "fundamental_score"}

RiskInputs == {ov @@ b : ov \in OverridesOf(RiskKeys), b \in Bases}

\* items of a score_batch list: with and without a ticker, one that fails
AAPL == Str(<<"A", "A", "P", "L">>)
MSFT == Str(<<"M", "S", "F", "T">>)

BatchItems ==
    { EmptyDict,
      MakeStock(100),
      ("ticker" :> AAPL) @@ ("insider_signal_score" :> Num(Pts(75))),
      ("ticker" :> MSFT) @@ ("darkpool_signal_score" :> Huge) }

RECURSIVE ListsUpTo(_)
ListsUpTo(n) ==
    IF n = 0 THEN {<<>>}
    ELSE LET shorter == ListsUpTo(n - 1)
         IN  shorter \cup {Append(l, x) : l \in shorter, x \in BatchItems}

BatchInputs == ListsUpTo(MaxBatch)

LevelInputs == Levels \cup {"NONEXISTENT"}

(***************************************************************************)
(* The state machine: an engine is constructed, then its operations are    *)
(* called one at a time.                                                   *)
(***************************************************************************)
NoResult == [st |-> "none"]
NoRisk == [st |-> "none", level |-> ""]

Idle ==
    /\ pc = "idle"
    /\ stock_data = EmptyDict
    /\ result = NoResult
    /\ risk = NoRisk
    /\ level_arg = ""
    /\ position = <<0, 0>>
    /\ stocks_data = <<>>
    /\ results = <<>>

\* no signal producer has been called
NoCall == [ticker |-> ""]
NoUpstream == [st |-> "none"]
NoOut == [st |-> "none"]

ProducersIdle ==
    /\ ppc = "idle"
    /\ call = NoCall
    /\ upstream = NoUpstream
    /\ out = NoOut

\* no pool worker is inside the engine
MaxWorkers == 2     \* pool workers sharing one engine
Workers == 1..MaxWorkers
NoThread ==
    [pc |-> "idle", op |-> "", stock_data |-> EmptyDict,
     locals |-> [signal_scores |-> [k \in {} |-> 0], weighted_sum |-> 0,
                 active_dark_signals |-> <<>>, conviction_level |-> ""],
     result |-> NoResult]
ThreadsIdle == threads = [t \in Workers |-> NoThread]

\* run_analysis has not been called
RunIdle ==
    /\ tickers = <<>>
    /\ signal_detectors = {}
    /\ futures = <<>>
    /\ completed_count = 0
    /\ analyzed_stocks = <<>>
    /\ failed_stocks = <<>>
    /\ progress_lock = 0
    /\ phase = "idle"

\* no call has been made on the social scorer
NoCallYet == [st |-> "none"]
ScorerIdle ==
    /\ clock = 0
    /\ _cache = None
    /\ _history = [t \in {} |-> <<>>]
    /\ fetch_log = <<>>
    /\ last_call = NoCallYet

\* no worker is in the FTD tracker
NoLoader == [pc |-> "idle", k |-> 0, result |-> NoOut]
TrackerIdle ==
    /\ sec = <<>>
    /\ finra = <<>>
    /\ _ftd_cache = [s \in {} |-> <<>>]
    /\ _short_volume_cache = [s \in {} |-> <<>>]
    /\ loaders = [t \in Workers |-> NoLoader]

CachesIdle == ScorerIdle /\ TrackerIdle

\* the ranker is not in use
RankerIdle ==
    /\ filters = [k \in {} |-> 0]
    /\ rpc = "idle"
    /\ ranker_arg = <<>>
    /\ ranker_out = <<>>

\* no helper function is being applied
HelpersIdle ==
    /\ fn = "idle"
    /\ fn_arg = <<>>
    /\ fn_out = <<>>

\* CongressTradesTracker._cached_trades: None, or a dataset
NoTrades == [none |-> TRUE, data |-> <<>>]
CachedTrades(data) == [none |-> FALSE, data |-> data]

\* a new congress tracker that has not been called
CongressIdle ==
    /\ wall = 0
    /\ _cached_trades = NoTrades
    /\ _cache_timestamp = 0
    /\ requests_sent = 0
    /\ fetched = NoCallYet

\* no worker is in the insider detector
NoCaller == [pc |-> "idle", wake |-> 0]
LimiterIdle ==
    /\ mono = 0
    /\ _last_request_time = 0
    /\ callers = [w \in Workers |-> NoCaller]
    /\ request_times = <<>>

RestIdle == RankerIdle /\ HelpersIdle /\ CongressIdle /\ LimiterIdle

\* ConvictionEngine.__init__
Init ==
    /\ config \in Configs
    /\ weights = _load_weights(config)
    /\ dark_signal_keys =
           ConfigGet(config, "dark_signal_keys", DEFAULT_DARK_SIGNAL_KEYS)
    /\ dark_flow_min = ConfigGet(config, "dark_flow_alert_min_signals", 3)
    /\ strong_signal_min = ConfigGet(config, "strong_signal_min_signals", 2)
    /\ Idle
    /\ ProducersIdle
    /\ ThreadsIdle
    /\ RunIdle
    /\ CachesIdle
    /\ RestIdle

CalculateConvictionScore ==
    /\ pc = "idle"
    /\ \E sd \in StockInputs :
           /\ stock_data' = sd
           /\ result' = calculate_conviction_score(sd)
    /\ pc' = "calculate_conviction_score"
    /\ UNCHANGED <<engine, risk, level_arg, position, stocks_data, results,
                 outside_engine>>

AssessRisk ==
    /\ pc = "idle"
    /\ \E sd \in RiskInputs :
           /\ stock_data' = sd
           /\ risk' = assess_risk(sd)
    /\ pc' = "assess_risk"
    /\ UNCHANGED <<engine, result, level_arg, position, stocks_data, results,
                 outside_engine>>

GetPositionSize ==
    /\ pc = "idle"
    /\ \E l \in LevelInputs :
           /\ level_arg' = l
           /\ position' = get_position_size(l)
    /\ pc' = "get_position_size"
    /\ UNCHANGED <<engine, stock_data, result, risk, stocks_data, results,
                 outside_engine>>

ScoreBatch ==
    /\ pc = "idle"
    /\ \E list \in BatchInputs :
           /\ stocks_data' = list
           /\ results' = score_batch(list)
    /\ pc' = "score_batch"
    /\ UNCHANGED <<engine, stock_data, result, risk, level_arg, position,
                 outside_engine>>

\* the caller takes the return value; the engine is ready for the next call
Return ==
    /\ pc # "idle"
    /\ pc' = "idle"
    /\ stock_data' = EmptyDict
    /\ result' = NoResult
    /\ risk' = NoRisk
    /\ level_arg' = ""
    /\ position' = <<0, 0>>
    /\ stocks_data' = <<>>
    /\ results' = <<>>
    /\ UNCHANGED <<engine, outside_engine>>

Next ==
    \/ CalculateConvictionScore
    \/ AssessRisk
    \/ GetPositionSize
    \/ ScoreBatch
    \/ Return

Spec == Init /\ [][Next]_vars

(***************************************************************************)
(* Vocabulary of the properties.                                           *)
(***************************************************************************)
\* calculate_conviction_score has just returned a result dict
Scored == pc = "calculate_conviction_score" /\ result.st = "ok"

\* the value stock_data holds for the score key of weight key k
RawOf(sd, k) == Get(sd, WEIGHT_TO_SCORE_KEY[k])

Range(seq) == {seq[i] : i \in 1..Len(seq)}

\* sd with every absent score key supplied as 50
FillNeutral(sd) ==
    [key \in (DOMAIN sd) \cup ScoreKeys |->
        IF key \in DOMAIN sd THEN sd[key] ELSE Num(Pts(50))]

\* two results agree on score, level, active signals and position size
SameScoring(a, b) ==
    /\ a.conviction_score = b.conviction_score
    /\ a.conviction_level = b.conviction_level
    /\ a.active_dark_signals = b.active_dark_signals
    /\ a.active_dark_signal_count = b.active_dark_signal_count
    /\ a.position_size_pct = b.position_size_pct
    /\ a.max_allocation_pct = b.max_allocation_pct

(***************************************************************************)
(* C1.  Clamping invariant: in every result calculate_conviction_score     *)
(* returns, conviction_score and every entry of signal_scores lie in       *)
(* [0, 100]; an input above 100 shows as 100.0 in signal_scores and an     *)
(* input below 0 as 0.0.                                                   *)
(***************************************************************************)
C1_ClampingInvariant ==
    Scored =>
        /\ 0 <= result.conviction_score
        /\ result.conviction_score <= Pts(100)
        /\ \A k \in WeightKeys :
              /\ 0 <= result.signal_scores[k]
              /\ result.signal_scores[k] <= Pts(100)
              /\ RawOf(stock_data, k).t = "num"
                 /\ RawOf(stock_data, k).v > Pts(100)
                     => result.signal_scores[k] = Pts(100)
              /\ RawOf(stock_data, k).t = "num"
                 /\ RawOf(stock_data, k).v < 0
                     => result.signal_scores[k] = 0

\* a result for a dict holding a score above 100 and one holding a score
\* below 0, each clamped
C1_Witness ==
    /\ Scored
    /\ \E k \in WeightKeys :
          /\ RawOf(stock_data, k) = Num(Pts(200))
          /\ result.signal_scores[k] = Pts(100)
    /\ result.conviction_score = Pts(100)

RECURSIVE ConfiguredSum(_, _)
ConfiguredSum(raw, i) ==
    IF i = 0 THEN 0
    ELSE ConfiguredSum(raw, i - 1)
         + (IF KeyOrder[i] \in DOMAIN raw THEN raw[KeyOrder[i]] ELSE 0)

\* the configured table with absent keys taken from the defaults
Filled(cfg) ==
    LET raw == ConfigGet(cfg, "weights", DEFAULT_WEIGHTS)
    IN  [k \in WeightKeys |->
            IF k \in DOMAIN raw THEN raw[k] ELSE DEFAULT_WEIGHTS[k]]

WeightsNormal ==
    /\ weights.den > 0
    /\ \A k \in WeightKeys : weights.num[k] >= 0
    /\ SumWeights(weights.num, Len(KeyOrder)) = weights.den

C3_EveryTableNormalized ==
    /\ WeightsNormal
    /\ "weights" \in config.keys
       /\ ConfiguredSum(config.weights, Len(KeyOrder)) = 0
           => weights = Table(DEFAULT_WEIGHTS)

\* C3 as amended: when the configured table, with absent keys taken from
\* the defaults, has no negative weight, the weights held are non-negative
\* and sum to 1.0; when that filled table sums to 0 or less the engine holds
\* exactly the default table; and no engine operation changes the table.
C3_WeightsNormalized ==
    /\ [](/\ (\A k \in WeightKeys : Filled(config)[k] >= 0) => WeightsNormal
          /\ SumWeights(Filled(config), Len(KeyOrder)) <= 0
                 => weights = Table(DEFAULT_WEIGHTS))
    /\ [][weights' = weights]_vars

\* an engine built from weights that needed normalizing has scored a dict
C3_Witness ==
    /\ Scored
    /\ "weights" \in config.keys
    /\ weights.den # WOne
    /\ WeightsNormal

(***************************************************************************)
(* C4.  Confluence detection: a key of the dark-signal subset is in        *)
(* active_dark_signals exactly when its clamped input score is strictly    *)
(* greater than 60, however slightly; active_dark_signal_count is the      *)
(* number of distinct active keys; no key outside the subset is counted.   *)
(***************************************************************************)
C4_ActiveIffAbove60 ==
    Scored =>
        LET active == Range(result.active_dark_signals)
        IN  /\ \A key \in Range(dark_signal_keys) :
                  key \in active
                      <=> _get_signal_score(stock_data, key).v > Pts(60)
            /\ active \subseteq Range(dark_signal_keys)
            /\ result.active_dark_signal_count = Cardinality(active)

(***************************************************************************)
(* C5.  Level classification depends only on the active dark-signal count: *)
(* with the default thresholds 3 and 2, a count of 3 or more gives         *)
(* DARK_FLOW_ALERT, 2 gives STRONG_SIGNAL, 1 gives SINGLE_SIGNAL and 0     *)
(* gives TECHNICAL_ONLY; DARK_FLOW_ALERT is never reported with fewer than *)
(* dark_flow_min active signals, and TECHNICAL_ONLY is reported exactly    *)
(* when no dark signal is active (a count of 0 falls through every         *)
(* threshold that is at least 1, as the default ones are).                 *)
(***************************************************************************)
C5_LevelByCount ==
    Scored =>
        LET count == result.active_dark_signal_count
            level == result.conviction_level
        IN  /\ dark_flow_min = 3 /\ strong_signal_min = 2 =>
                  level = (IF count >= 3 THEN DARK_FLOW_ALERT
                           ELSE IF count = 2 THEN STRONG_SIGNAL
                           ELSE IF count = 1 THEN SINGLE_SIGNAL
                           ELSE TECHNICAL_ONLY)
            /\ level = DARK_FLOW_ALERT => count >= dark_flow_min
            /\ level = TECHNICAL_ONLY => count = 0
            /\ dark_flow_min >= 1 /\ strong_signal_min >= 1 /\ count = 0
                   => level = TECHNICAL_ONLY

\* exactly three active signals under the default thresholds
C5_Witness ==
    /\ Scored
    /\ dark_flow_min = 3
    /\ strong_signal_min = 2
    /\ result.active_dark_signal_count = 3
    /\ result.conviction_level = DARK_FLOW_ALERT

(***************************************************************************)
(* C6.  conviction_score is clamp(weighted_sum + bonus, 0, 100) rounded to *)
(* two decimals, weighted_sum being the sum over the weight keys of        *)
(* weight times clamped score (50 when missing) and bonus 15 for           *)
(* DARK_FLOW_ALERT, 8 for STRONG_SIGNAL and 0 otherwise; all scores at 100 *)
(* give exactly 100.0 and, in an engine built with the defaults, a single  *)
(* key raised to 100 adds (100 - 50) * weight to the neutral 50.           *)
(***************************************************************************)
\* sum of clamped score times weight numerator over a set of weight keys
RECURSIVE C6_Sum(_, _)
C6_Sum(sd, keys) ==
    IF keys = {} THEN 0
    ELSE LET k == CHOOSE x \in keys : TRUE
         IN  _get_signal_score(sd, k).v * weights.num[k]
             + C6_Sum(sd, keys \ {k})

C6_Bonus(level) ==
    IF level = DARK_FLOW_ALERT THEN 15
    ELSE IF level = STRONG_SIGNAL THEN 8
    ELSE 0

C6_CompositeScore ==
    Scored =>
        LET den == weights.den
            total == C6_Sum(stock_data, WeightKeys)
                     + Pts(C6_Bonus(result.conviction_level)) * den
            exact == IF total < 0 THEN 0
                     ELSE IF total > Pts(100) * den THEN Pts(100) * den
                     ELSE total
            shown == result.conviction_score * den
            raised == {k \in WeightKeys :
                          RawOf(stock_data, k) = Num(Pts(200))}
        IN  \* a multiple of 0.01 within 0.005 of the exact value
            /\ result.conviction_score % Cents(1) = 0
            /\ 2 * (shown - exact) <= Cents(1) * den
            /\ 2 * (exact - shown) <= Cents(1) * den
            /\ stock_data = MakeStock(100) =>
                   result.conviction_score = Pts(100)
            /\ \A k \in WeightKeys :
                   config.keys = {}
                   /\ DOMAIN stock_data = {WEIGHT_TO_SCORE_KEY[k]}
                   /\ raised = {k}
                       => result.conviction_score
                              = Pts(50) + 500 * DEFAULT_WEIGHTS[k]

\* the three-signal fixture under the default weights: 61.75 + 15
C6_Witness ==
    /\ Scored
    /\ weights = Table(DEFAULT_WEIGHTS)
    /\ stock_data = ThreeDark
    /\ result.conviction_level = DARK_FLOW_ALERT
    /\ result.conviction_score = Pts(76) + 750

(***************************************************************************)
(* C7.  Position sizing is a fixed function of the level:                  *)
(* position_size_pct is the minimum and max_allocation_pct the maximum of  *)
(* the level's band (DARK_FLOW_ALERT 10/15, STRONG_SIGNAL 5/10,            *)
(* SINGLE_SIGNAL 3/5, TECHNICAL_ONLY 0/0), so position_size_pct <=         *)
(* max_allocation_pct, both 0 exactly for TECHNICAL_ONLY; get_position_size*)
(* maps an unknown level to (0.0, 0.0).                                    *)
(***************************************************************************)
C7_Band(level) ==
    IF level = DARK_FLOW_ALERT THEN <<10, 15>>
    ELSE IF level = STRONG_SIGNAL THEN <<5, 10>>
    ELSE IF level = SINGLE_SIGNAL THEN <<3, 5>>
    ELSE <<0, 0>>

C7_PositionSizing ==
    /\ Scored =>
          /\ <<result.position_size_pct, result.max_allocation_pct>>
                 = C7_Band(result.conviction_level)
          /\ result.position_size_pct <= result.max_allocation_pct
          /\ result.position_size_pct = 0 /\ result.max_allocation_pct = 0
                 <=> result.conviction_level = TECHNICAL_ONLY
    /\ pc = "get_position_size" => position = C7_Band(level_arg)

\* a DARK_FLOW_ALERT result sized 10 with a cap of 15
C7_Witness ==
    /\ Scored
    /\ result.conviction_level = DARK_FLOW_ALERT
    /\ result.position_size_pct = 10
    /\ result.max_allocation_pct = 15

(***************************************************************************)
(* C8.  Malformed input never raises: when a score key holds None or a     *)
(* value that cannot be converted to a number, calculate_conviction_score  *)
(* completes normally and uses the neutral 50 for that key, in             *)
(* signal_scores and in the weighted sum.                                  *)
(***************************************************************************)
\* the key is present and holds None or a value float() rejects
Unconvertible(sd, k) ==
    /\ WEIGHT_TO_SCORE_KEY[k] \in DOMAIN sd
    /\ RawOf(sd, k).t = "none" \/ ToFloat(RawOf(sd, k)).st # "ok"

C8_MalformedNeverRaises ==
    pc = "calculate_conviction_score" =>
        \A k \in WeightKeys :
            Unconvertible(stock_data, k) =>
                /\ result.st = "ok"
                /\ result.signal_scores[k] = Pts(50)
                /\ SameScoring(result,
                       calculate_conviction_score(
                           [stock_data EXCEPT ![WEIGHT_TO_SCORE_KEY[k]] =
                               Num(Pts(50))]))

(***************************************************************************)
(* C9.  risk_level is decided by the volatility score, the scores of the   *)
(* conflict-check set and the technical and fundamental scores alone:      *)
(* points = (2 if volatility > 70, else 1 if volatility > 55)              *)
(*        + (2 if a conflict-check score is > 60 while another is < 40)    *)
(*        + (1 if |technical - fundamental| > 30);                         *)
(* high iff points >= 3, medium iff 1 <= points < 3, low iff points = 0.   *)
(* Neither the weights nor conviction_score enter into it.                 *)
(***************************************************************************)
\* the numbers a key supplies: at most one, none for a key that is absent,
\* None, unconvertible or nan
C9_Values(sd, key) ==
    IF key \in DOMAIN sd /\ sd[key].t # "none"
       /\ ToFloat(sd[key]).st = "ok" /\ ~ToFloat(sd[key]).nan
    THEN {ToFloat(sd[key]).v}
    ELSE {}

C9_ConflictSet ==
    {"insider_signal_score", "options_signal_score",
     "darkpool_signal_score", "congress_signal_score"}

C9_Points(sd) ==
    LET vol == C9_Values(sd, "volatility_score")
        tech == C9_Values(sd, "technical_score")
        fund == C9_Values(sd, "fundamental_score")
    IN  (IF \E v \in vol : v > Pts(70) THEN 2
         ELSE IF \E v \in vol : v > Pts(55) THEN 1
         ELSE 0)
        + (IF \E a, b \in C9_ConflictSet :
                 /\ \E v \in C9_Values(sd, a) : v > Pts(60)
                 /\ \E v \in C9_Values(sd, b) : v < Pts(40)
           THEN 2 ELSE 0)
        + (IF \E t \in tech, f \in fund :
                 t - f > Pts(30) \/ f - t > Pts(30)
           THEN 1 ELSE 0)

C9_Level(sd) ==
    IF C9_Points(sd) >= 3 THEN "high"
    ELSE IF C9_Points(sd) >= 1 THEN "medium"
    ELSE "low"

C9_RiskLevel ==
    /\ pc = "assess_risk" /\ risk.st = "ok" =>
           risk.level = C9_Level(stock_data)
    /\ Scored => result.risk_level = C9_Level(stock_data)

\* assess_risk has answered "high" for a bullish insider score against a
\* bearish options score under high volatility
C9_Witness ==
    /\ pc = "assess_risk"
    /\ stock_data = [Conflict EXCEPT !["volatility_score"] = Num(Pts(75))]
    /\ risk = [st |-> "ok", level |-> "high"]

(***************************************************************************)
(* C10.  score_batch isolates failures: an item whose scoring raises is    *)
(* left out and the batch goes on; the output holds exactly one result per *)
(* item that scores, in input order, each with that item's ticker          *)
(* ('UNKNOWN' when it has none); the empty list gives the empty list.      *)
(***************************************************************************)
C10_Scores(sd) == calculate_conviction_score(sd).st = "ok"

C10_BatchIsolation ==
    pc = "score_batch" =>
        LET good == SelectSeq(stocks_data, C10_Scores)
        IN  /\ Len(results) = Len(good)
            /\ \A j \in 1..Len(good) :
                  /\ results[j].res = calculate_conviction_score(good[j])
                  /\ results[j].ticker =
                         (IF "ticker" \in DOMAIN good[j]
                          THEN good[j]["ticker"]
                          ELSE Str(<<"U", "N", "K", "N", "O", "W", "N">>))
            /\ stocks_data = <<>> => results = <<>>

\* a batch whose first item raises and whose second, without a ticker,
\* is scored
C10_Witness ==
    /\ pc = "score_batch"
    /\ Len(stocks_data) = 2
    /\ ~C10_Scores(stocks_data[1])
    /\ stocks_data[2] = EmptyDict
    /\ Len(results) = 1
    /\ results[1].ticker = UNKNOWN
    /\ results[1].res.st = "ok"

(***************************************************************************)
(* The signal producers (src/src/signals).  Each producer is called with a *)
(* ticker; its data source answers with a payload or fails.                *)
(*                                                                         *)
(* Time is counted in hours, so that a date (midnight) and the time of a    *)
(* call (any hour of the day) can differ by less than a day.               *)
(***************************************************************************)
Days(n) == 24 * n

\* dict.get(key, default) on a record whose absent keys hold Missing
Missing == "<missing>"
GetOr(v, default) == IF v = Missing THEN default ELSE v

\* a producer's result dict: the score, the direction, the value under the
\* key 'error' when the dict has one, and the producer's own fields
Signal(score, direction, error_key, error, detail) ==
    [st |-> "ok", score |-> score, direction |-> direction,
     error_key |-> error_key, error |-> error, detail |-> detail]

NoDetail == [count |-> 0]

(***************************************************************************)
(* Congressional trades (src/src/signals/congress_trades.py).              *)
(***************************************************************************)
lookback_days == 45
cluster_window_days == 30
RECENCY_DAYS == 7

\* the dollar figures the regular expression finds in an amount string that
\* is not a key of AMOUNT_MIDPOINTS
Figures(amount_str) ==
    CASE amount_str = "$100,000"           -> <<100000>>
      [] amount_str = "$90,000 - $109,998" -> <<90000, 109998>>
      [] OTHER                             -> <<>>

_parse_amount_to_midpoint(amount_str) ==
    CASE amount_str = ""                    -> 0
      [] amount_str = "$1,001 - $15,000"    -> 8000
      [] amount_str = "$15,001 - $50,000"   -> 32500
      [] amount_str = "$50,001 - $100,000"  -> 75000
      [] amount_str = "$100,001 - $250,000" -> 175000
      [] amount_str = "Over $50,000,000"    -> 50000000
      [] OTHER ->
            LET figures == Figures(amount_str)
            IN  IF Len(figures) >= 2 THEN (figures[1] + figures[2]) \div 2
                ELSE IF Len(figures) = 1 THEN figures[1]
                ELSE 0

\* a date is its day number; NoDate is an absent or malformed date
NoDate == 0 - 1

\* _parse_date: the midnight of a date, NoDate (None) without one
_parse_date(date) == IF date = NoDate THEN NoDate ELSE Days(date)

\* str.upper() and str.strip() on the tickers of this model
Upper(s) == IF s = "test" THEN "TEST" ELSE s
Strip(s) == IF s = " TEST " THEN "TEST" ELSE s

\* (t.get('ticker') or '').upper().strip()
UpperStrip(s) == Strip(Upper(GetOr(s, "")))

\* 'purchase' in (t.get('type') or '').lower()
IsPurchase(type) == type \in {"purchase", "Purchase", "purchase (partial)"}

\* CongressTradesTracker._neutral_result
CongressNeutral(error) ==
    Signal(0, "neutral", TRUE, error, [count |-> 0])

\* the purchases _score_ticker keeps, as indices into all_trades
Purchases(ticker, all_trades, now) ==
    {i \in 1..Len(all_trades) :
        /\ UpperStrip(all_trades[i].ticker) = ticker
        /\ IsPurchase(all_trades[i].type)
        /\ _parse_date(all_trades[i].disclosure_date) # NoDate
        /\ _parse_date(all_trades[i].disclosure_date)
               >= now - Days(lookback_days)}

CongressBase_NoCluster(cluster_size, max_amount) ==
    IF max_amount >= 100000 THEN Pts(60) ELSE Pts(30)

\* the tier of the score: the cluster, else the largest amount
CongressBase(cluster_size, max_amount) ==
    IF cluster_size >= 2
    THEN IF cluster_size >= 3 THEN Pts(90) ELSE Pts(75)
    ELSE IF max_amount >= 100000 THEN Pts(60)
    ELSE Pts(30)

SetMax(S) == CHOOSE m \in S : \A x \in S : x <= m
SetMin(S) == CHOOSE m \in S : \A x \in S : m <= x

\* CongressTradesTracker._score_ticker at the time now
CongressScoreTicker(ticker, all_trades, now) ==
    LET purchases == Purchases(ticker, all_trades, now)
        cluster_unique ==
            {GetOr(all_trades[i].representative, "Unknown") :
                i \in {j \in purchases :
                         _parse_date(all_trades[j].disclosure_date)
                             >= now - Days(cluster_window_days)}}
        latest_dt == SetMax({_parse_date(all_trades[i].disclosure_date) : i \in purchases})
        has_recent == latest_dt >= now - Days(RECENCY_DAYS)
        max_amount ==
            SetMax({_parse_amount_to_midpoint(GetOr(all_trades[i].amount, "")) :
                      i \in purchases})
        base == CongressBase(Cardinality(cluster_unique), max_amount)
        recent == IF has_recent THEN SetMin({Pts(100), base + Pts(10)}) ELSE base
        score == IF Cardinality(purchases) >= 5
                 THEN SetMin({Pts(100), recent + Pts(5)}) ELSE recent
    IN  IF purchases = {} THEN CongressNeutral("")
        ELSE Signal(score, IF score >= Pts(20) THEN "bullish" ELSE "neutral",
                    TRUE, "",
                    [count |-> Cardinality(purchases),
                     cluster_size |-> Cardinality(cluster_unique),
                     max_amount |-> max_amount, has_recent |-> has_recent])

(***************************************************************************)
(* Options flow (src/src/signals/options_flow.py).  A contract's           *)
(* expiration is the number of days from today to its expiry date.         *)
(***************************************************************************)
UNUSUAL_VOL_OI_RATIO == 3
VERY_UNUSUAL_VOL_OI_RATIO == 5
NEAR_TERM_DAYS == 14
SWEEP_MIN_STRIKES == 3

RECURSIVE Sum(_)
Sum(seq) == IF seq = <<>> THEN 0 ELSE seq[1] + Sum(Tail(seq))

\* OptionsFlowScanner._neutral_result
OptionsNeutral == Signal(Pts(40), "neutral", FALSE, "", NoDetail)

\* volume / open_interest >= n, the ratio being 0.0 without interest or volume
RatioAtLeast(c, n) ==
    c.open_interest > 0 /\ c.volume > 0 /\ c.volume >= n * c.open_interest

\* OptionsFlowScanner._classify_direction
OptionsClassifyDirection(put_vol, call_vol, unusual_calls, unusual_puts, call_sweep, put_sweep) ==
    LET ratio_bull == IF call_vol > 0 /\ 10 * put_vol < 7 * call_vol THEN 2
                      ELSE IF call_vol > 0 /\ 10 * put_vol < 9 * call_vol THEN 1
                      ELSE 0
        ratio_bear == IF ratio_bull > 0 \/ call_vol <= 0 THEN 0
                      ELSE IF 10 * put_vol > 13 * call_vol THEN 2
                      ELSE IF 10 * put_vol > 11 * call_vol THEN 1
                      ELSE 0
        bias_bull == IF 2 * unusual_calls > 3 * unusual_puts THEN 2
                     ELSE IF unusual_calls > unusual_puts THEN 1
                     ELSE 0
        bias_bear == IF bias_bull > 0 THEN 0
                     ELSE IF 2 * unusual_puts > 3 * unusual_calls THEN 2
                     ELSE IF unusual_puts > unusual_calls THEN 1
                     ELSE 0
        bullish_points == ratio_bull + bias_bull + (IF call_sweep THEN 2 ELSE 0)
        bearish_points == ratio_bear + bias_bear + (IF put_sweep THEN 2 ELSE 0)
    IN  IF bullish_points > bearish_points + 1 THEN "bullish"
        ELSE IF bearish_points > bullish_points + 1 THEN "bearish"
        ELSE "neutral"

\* OptionsFlowScanner._calculate_score; max_ratio is 5, 3 or 0 for a largest
\* ratio of at least 5, at least 3, or less
OptionsCalculateScore(direction, max_ratio, very_unusual_count, estimated_premium, near_term, call_sweep, put_sweep) ==
    LET base == CASE direction = "bullish" -> Pts(60)
                  [] direction = "bearish" -> Pts(20)
                  [] OTHER -> Pts(40)
        intensity == IF max_ratio >= VERY_UNUSUAL_VOL_OI_RATIO THEN Pts(15)
                     ELSE IF max_ratio >= UNUSUAL_VOL_OI_RATIO THEN Pts(8)
                     ELSE 0
        count_bonus == SetMin({Pts(very_unusual_count * 3), Pts(10)})
        sweep == IF direction = "bullish" /\ call_sweep THEN Pts(8)
                 ELSE IF direction = "bearish" /\ put_sweep THEN 0 - Pts(8)
                 ELSE 0
        premium == IF estimated_premium > 5000000 THEN Pts(20)
                   ELSE IF estimated_premium > 1000000 THEN Pts(10)
                   ELSE 0
        score == base + intensity + count_bonus + sweep + premium
                     + (IF near_term THEN Pts(10) ELSE 0)
        gated == IF direction = "bearish" THEN SetMax({0, score})
                 ELSE SetMin({Pts(100), score})
    IN  SetMax({0, SetMin({Pts(100), gated})})

\* OptionsFlowScanner._analyze_contracts
OptionsAnalyzeContracts(contracts) ==
    LET idx == 1..Len(contracts)
        Volume(type) ==
            Sum([i \in idx |-> IF contracts[i].option_type = type
                               THEN contracts[i].volume ELSE 0])
        unusual == {i \in idx : RatioAtLeast(contracts[i], UNUSUAL_VOL_OI_RATIO)}
        very_unusual ==
            {i \in idx : RatioAtLeast(contracts[i], VERY_UNUSUAL_VOL_OI_RATIO)}
        Unusual(type) == {i \in unusual : contracts[i].option_type = type}
        Sweep(type) ==
            \E i \in Unusual(type) :
                Cardinality({j \in Unusual(type) :
                    contracts[j].expiration = contracts[i].expiration})
                        >= SWEEP_MIN_STRIKES
        estimated_premium ==
            Sum([i \in idx |-> IF i \in unusual
                               THEN contracts[i].volume * contracts[i].last * 100
                               ELSE 0])
        near_term ==
            \E i \in unusual : /\ contracts[i].expiration # NoDate
                               /\ contracts[i].expiration <= NEAR_TERM_DAYS
        max_ratio == IF very_unusual # {} THEN VERY_UNUSUAL_VOL_OI_RATIO
                     ELSE IF unusual # {} THEN UNUSUAL_VOL_OI_RATIO
                     ELSE 0
        direction ==
            OptionsClassifyDirection(Volume("put"), Volume("call"),
                Cardinality(Unusual("call")), Cardinality(Unusual("put")),
                Sweep("call"), Sweep("put"))
        score ==
            OptionsCalculateScore(direction, max_ratio,
                Cardinality(very_unusual), estimated_premium, near_term,
                Sweep("call"), Sweep("put"))
    IN  Signal(score, direction, FALSE, "",
               [count |-> Cardinality(unusual), put_sweep |-> Sweep("put"),
                estimated_premium |-> estimated_premium,
                near_term |-> near_term, max_ratio |-> max_ratio])

(***************************************************************************)
(* Fails-to-deliver and short volume (src/src/signals/ftd_tracker.py).     *)
(* Ratios are compared by cross multiplication, which is exact.            *)
(***************************************************************************)
THRESHOLD_LIST_DAYS == 13
THRESHOLD_QUANTITY == 10000

\* sorted(records, key=date): a stable insertion sort
RECURSIVE Sorted(_, _)
Sorted(records, key) ==
    IF records = <<>> THEN <<>>
    ELSE LET n == Len(records)
             init == Sorted(SubSeq(records, 1, n - 1), key)
             last == records[n]
             k == Cardinality({i \in 1..(n - 1) : init[i][key] <= last[key]})
         IN  SubSeq(init, 1, k) \o <<last>> \o SubSeq(init, k + 1, n - 1)

\* FTDShortTracker._compute_trend_from_values, on values that share one
\* positive denominator
Trend(values) ==
    LET n == Len(values)
        mid == n \div 2
        first == Sum(SubSeq(values, 1, mid))
        second == Sum(SubSeq(values, mid + 1, n))
    IN  IF n < 2 THEN "stable"
        ELSE IF first = 0 THEN (IF second > 0 THEN "increasing" ELSE "stable")
        ELSE IF 5 * second * mid > 6 * first * (n - mid) THEN "increasing"
        ELSE IF 5 * second * mid < 4 * first * (n - mid) THEN "decreasing"
        ELSE "stable"

\* FTDShortTracker._check_threshold_list; run is the streak so far
RECURSIVE ThresholdRun(_, _)
ThresholdRun(quantities, run) ==
    IF quantities = <<>> THEN FALSE
    ELSE IF quantities[1] >= THRESHOLD_QUANTITY
         THEN run + 1 >= THRESHOLD_LIST_DAYS \/ ThresholdRun(Tail(quantities), run + 1)
         ELSE ThresholdRun(Tail(quantities), 0)

\* _check_threshold_list counting the elevated days, consecutive or not
_check_threshold_list_Counted(quantities) ==
    /\ Len(quantities) >= THRESHOLD_LIST_DAYS
    /\ Cardinality({i \in 1..Len(quantities) :
                       quantities[i] >= THRESHOLD_QUANTITY}) >= THRESHOLD_LIST_DAYS

_check_threshold_list(quantities) ==
    Len(quantities) >= THRESHOLD_LIST_DAYS /\ ThresholdRun(quantities, 0)

\* FTDShortTracker._analyze_ftd; the average is total / count
_analyze_ftd(records) ==
    LET quantities ==
            [i \in 1..Len(records) |-> Sorted(records, "settlement_date")[i].quantity]
    IN  IF records = <<>>
        THEN [current |-> 0, total |-> 0, count |-> 1, trend |-> "stable",
              on_threshold_list |-> FALSE]
        ELSE [current |-> quantities[Len(quantities)], total |-> Sum(quantities),
              count |-> Len(quantities), trend |-> Trend(quantities),
              on_threshold_list |-> _check_threshold_list(quantities)]

\* spike_ratio >= n, the ratio being 0.0 without a positive average
SpikeAtLeast(ftd, n) ==
    IF ftd.total > 0 THEN ftd.current * ftd.count >= n * ftd.total ELSE 0 >= n

RECURSIVE Product(_)
Product(seq) == IF seq = <<>> THEN 1 ELSE seq[1] * Product(Tail(seq))

\* FTDShortTracker._analyze_short_interest; days_to_cover is short / cover
_analyze_short_interest(records) ==
    LET sorted_recs == Sorted(records, "date")
        valid == SelectSeq(sorted_recs, LAMBDA r : r.total_volume > 0)
        den == Product([i \in 1..Len(valid) |-> valid[i].total_volume])
        ratios == [i \in 1..Len(valid) |->
                      valid[i].short_volume * (den \div valid[i].total_volume)]
        short == Sum([i \in 1..Len(records) |-> records[i].short_volume])
        total == Sum([i \in 1..Len(records) |-> records[i].total_volume])
    IN  IF records = <<>> THEN [ratio_trend |-> "neutral", short |-> 0, cover |-> 1]
        ELSE IF total - short > 0 /\ short > 0
        THEN [ratio_trend |-> Trend(ratios), short |-> short, cover |-> total - short]
        ELSE [ratio_trend |-> Trend(ratios), short |-> 0, cover |-> 1]

\* days_to_cover >= half_n / 2
DaysToCoverAtLeast(short, half_n) == 2 * short.short >= half_n * short.cover

\* FTDShortTracker._calculate_score
FtdCalculateScore(ftd, short) ==
    LET spike == IF SpikeAtLeast(ftd, 10) THEN 50
                 ELSE IF SpikeAtLeast(ftd, 5) THEN 35
                 ELSE IF SpikeAtLeast(ftd, 2) THEN 15
                 ELSE IF SpikeAtLeast(ftd, 1) THEN 5
                 ELSE 0
        listed == IF ftd.on_threshold_list THEN 15 ELSE 0
        trend == IF ftd.trend = "increasing" THEN 10
                 ELSE IF ftd.trend = "decreasing" THEN 0 - 5
                 ELSE 0
        dtc == IF DaysToCoverAtLeast(short, 10) THEN 15
               ELSE IF DaysToCoverAtLeast(short, 6) THEN 10
               ELSE IF DaysToCoverAtLeast(short, 3) THEN 5
               ELSE 0
        ratio == IF short.ratio_trend = "increasing" THEN 5 ELSE 0
    IN  SetMax({0, SetMin({Pts(100), Pts(10 + spike + listed + trend + dtc + ratio)})})

_detect_squeeze_potential_AnyTrend(ftd, short, spike_threshold) ==
    /\ SpikeAtLeast(ftd, spike_threshold)
    /\ DaysToCoverAtLeast(short, 4)

\* FTDShortTracker._detect_squeeze_potential
_detect_squeeze_potential(ftd, short, spike_threshold) ==
    /\ SpikeAtLeast(ftd, spike_threshold)
    /\ DaysToCoverAtLeast(short, 4)
    /\ short.ratio_trend = "decreasing"

\* FTDShortTracker._determine_direction
FtdDetermineDirection(ftd, short, score, spike_threshold) ==
    IF _detect_squeeze_potential(ftd, short, spike_threshold) /\ score >= Pts(70)
    THEN "squeeze_potential"
    ELSE IF short.ratio_trend = "decreasing" /\ ftd.trend = "decreasing"
    THEN "covering"
    ELSE IF SpikeAtLeast(ftd, spike_threshold) \/ ftd.on_threshold_list
    THEN "pressure"
    ELSE "neutral"

\* FTDShortTracker._neutral_result
FtdNeutral == Signal(Pts(10), "neutral", FALSE, "", NoDetail)

\* FTDShortTracker._build_signal on the ticker's cached records
FtdBuildSignal(ftd_records, short_records, spike_threshold) ==
    LET ftd == _analyze_ftd(ftd_records)
        short == _analyze_short_interest(short_records)
        score == FtdCalculateScore(ftd, short)
    IN  Signal(score, FtdDetermineDirection(ftd, short, score, spike_threshold),
               FALSE, "",
               [count |-> Len(ftd_records), ftd |-> ftd, short |-> short,
                short_squeeze_potential |->
                    _detect_squeeze_potential(ftd, short, spike_threshold)])

(***************************************************************************)
(* Dark pool short volume (src/src/signals/dark_pool.py).  A daily row     *)
(* holds the day's short volume ratio, in tenths, and its total volume; a  *)
(* row without volume has no ratio.  The standard deviation is irrational: *)
(* the deviation component of the score is taken to the tenth of a point   *)
(* below its magnitude.                                                    *)
(***************************************************************************)
std_dev_threshold == 2
MIN_ROWS == 3
TenthsMax == 400

\* DarkPoolAnalyzer._neutral_result; an error adds the key 'error'
DarkPoolNeutral(error) ==
    Signal(Pts(30), "neutral", error # "", error, NoDetail)

\* the number of trailing entries of a series that have the given sign
RECURSIVE Trailing(_, _)
Trailing(diffs, sign) ==
    IF diffs = <<>> \/ diffs[Len(diffs)] * sign <= 0 THEN 0
    ELSE 1 + Trailing(SubSeq(diffs, 1, Len(diffs) - 1), sign)

\* _consecutive_trend without the break: every change of the sign counts
_consecutive_trend_Total(series) ==
    LET diffs == [i \in 1..(Len(series) - 1) |-> series[i + 1] - series[i]]
    IN  IF Len(series) < 2 THEN <<0, 0>>
        ELSE <<Cardinality({i \in DOMAIN diffs : diffs[i] < 0}),
               Cardinality({i \in DOMAIN diffs : diffs[i] > 0})>>

\* DarkPoolAnalyzer._consecutive_trend: (decline, rise)
_consecutive_trend(series) ==
    LET diffs == [i \in 1..(Len(series) - 1) |-> series[i + 1] - series[i]]
    IN  IF Len(series) < 2 THEN <<0, 0>>
        ELSE <<Trailing(diffs, 0 - 1), Trailing(diffs, 1)>>

\* DarkPoolAnalyzer._score_signals on rows that hold a ratio
DarkPoolScoreSignals(data) ==
    LET rows == SelectSeq(data, LAMBDA r : r.TotalVolume > 0)
        n == Len(rows)
        ratios == [i \in 1..n |-> rows[i].short_volume_ratio]
        volumes == [i \in 1..n |-> rows[i].TotalVolume]
        \* n * (current - mean) and n * n * (n - 1) * variance
        above == n * ratios[n] - Sum(ratios)
        spread == Sum([i \in 1..n |-> (n * ratios[i] - Sum(ratios)) * (n * ratios[i] - Sum(ratios))])
        \* |ratio_deviation| * 15, in tenths of a point
        tenths == IF n > 1 /\ spread > 0
                  THEN SetMax({k \in 0..TenthsMax :
                          k * k * spread <= 22500 * above * above * (n - 1)})
                  ELSE 0
        deviation_component ==
            IF above < 0 THEN SetMin({Pts(40), 100 * tenths})
            ELSE 0 - SetMin({Pts(20), 100 * tenths})
        beyond == n > 1 /\ spread > 0 /\ above * above * (n - 1)
                      > std_dev_threshold * std_dev_threshold * spread
        accumulation_anomaly == beyond /\ above < 0
        distribution_anomaly == beyond /\ above > 0
        volume_surge == volumes[n] * n > 2 * Sum(volumes)
        consecutive_decline == _consecutive_trend(ratios)[1]
        consecutive_rise == _consecutive_trend(ratios)[2]
        sustained_decline == consecutive_decline >= 5
        trend_component ==
            IF consecutive_decline >= 3
            THEN SetMin({Pts(consecutive_decline * 3), Pts(15)})
            ELSE IF consecutive_rise >= 3
            THEN 0 - SetMin({Pts(consecutive_rise * 3), Pts(15)})
            ELSE 0
        combo == IF volume_surge /\ accumulation_anomaly THEN Pts(15)
                 ELSE IF volume_surge /\ distribution_anomaly THEN 0 - Pts(10)
                 ELSE 0
        raw == Pts(30) + deviation_component + trend_component
                   + (IF sustained_decline THEN Pts(10) ELSE 0) + combo
        score == SetMax({0, SetMin({Pts(100), raw})})
    IN  IF n = 0 THEN DarkPoolNeutral("IndexError")
        ELSE Signal(score,
                    IF score >= Pts(55) THEN "accumulation"
                    ELSE IF score <= Pts(25) THEN "distribution"
                    ELSE "neutral",
                    FALSE, "",
                    [count |-> n, raw |-> raw,
                     consecutive_decline |-> consecutive_decline,
                     trend |-> IF consecutive_decline >= 3 THEN "declining"
                               ELSE IF consecutive_rise >= 3 THEN "rising"
                               ELSE "stable",
                     anomaly |-> accumulation_anomaly \/ distribution_anomaly
                                     \/ volume_surge \/ sustained_decline])

(***************************************************************************)
(* Insider flow (src/src/signals/insider_flow.py).  Weights are in tenths. *)
(***************************************************************************)
CLUSTER_WINDOW_DAYS == 14
CLUSTER_STRONG_MIN == 3
CLUSTER_MODERATE_MIN == 2
CLUSTER_STRONG_BONUS == 30
CLUSTER_MODERATE_BONUS == 15
PRICE_DIP_BONUS == 10

\* _get_role_weight on the titles of this model
_get_role_weight(role_title) ==
    CASE role_title = "Chief Executive Officer" -> 10
      [] role_title = "CFO"                     -> 9
      [] role_title = "Director"                -> 5
      [] OTHER                                  -> 3

\* _get_size_weight
_get_size_weight(value) ==
    LET abs_value == IF value < 0 THEN 0 - value ELSE value
    IN  IF abs_value >= 1000000 THEN 10
        ELSE IF abs_value >= 500000 THEN 8
        ELSE IF abs_value >= 100000 THEN 6
        ELSE IF abs_value >= 50000 THEN 4
        ELSE 2

\* _neutral_result of insider_flow.py
InsiderNeutral(error) == Signal(0, "neutral", FALSE, error, NoDetail)

\* _detect_clusters without the check of existing_names
InsiderClusterSize_Repeats(transactions) ==
    LET buys == SelectSeq(transactions,
                    LAMBDA t : t.direction = "buy" /\ t.date # NoDate)
        buys_sorted == Sorted(buys, "date")
        Cluster(i) ==
            {j \in i..Len(buys_sorted) :
                buys_sorted[j].date
                    <= buys_sorted[i].date + CLUSTER_WINDOW_DAYS}
    IN  IF Len(buys) < 2 THEN Len(buys)
        ELSE SetMax({Cardinality(Cluster(i)) : i \in 1..Len(buys_sorted)})

\* InsiderFlowDetector._detect_clusters: the size of the largest cluster
InsiderClusterSize(transactions) ==
    LET buys == SelectSeq(transactions,
                    LAMBDA t : t.direction = "buy" /\ t.date # NoDate)
        buys_sorted == Sorted(buys, "date")
        Cluster(i) ==
            {buys_sorted[j].owner_name :
                j \in {k \in i..Len(buys_sorted) :
                    buys_sorted[k].date
                        <= buys_sorted[i].date + CLUSTER_WINDOW_DAYS}}
    IN  IF Len(buys) < 2 THEN Len(buys)
        ELSE SetMax({Cardinality(Cluster(i)) : i \in 1..Len(buys_sorted)})

\* the total of role weight * size weight over the transactions of a direction
Weighted(transactions, direction) ==
    Sum([i \in 1..Len(transactions) |->
            IF transactions[i].direction = direction
            THEN _get_role_weight(transactions[i].owner_role)
                     * _get_size_weight(transactions[i].value)
            ELSE 0])

\* the score of _calculate_score before it is clamped
InsiderRawScore(transactions, cluster_size, price_near_dip) ==
    LET has_buys == \E i \in 1..Len(transactions) :
                        transactions[i].direction = "buy"
        cluster == IF cluster_size >= CLUSTER_STRONG_MIN
                   THEN Pts(CLUSTER_STRONG_BONUS)
                   ELSE IF cluster_size >= CLUSTER_MODERATE_MIN
                   THEN Pts(CLUSTER_MODERATE_BONUS)
                   ELSE 0
        dip == IF price_near_dip /\ has_buys THEN Pts(PRICE_DIP_BONUS) ELSE 0
    IN  100 * Weighted(transactions, "buy")
            - 50 * Weighted(transactions, "sell") + cluster + dip

InsiderCalculateScore_Unclamped(transactions, cluster_size, price_near_dip) ==
    IF transactions = <<>> THEN 0
    ELSE InsiderRawScore(transactions, cluster_size, price_near_dip)

\* InsiderFlowDetector._calculate_score
InsiderCalculateScore(transactions, cluster_size, price_near_dip) ==
    IF transactions = <<>> THEN 0
    ELSE SetMax({0, SetMin({Pts(100),
             InsiderRawScore(transactions, cluster_size, price_near_dip)})})

\* the total value of the transactions of a direction
TotalValue(transactions, direction) ==
    Sum([i \in 1..Len(transactions) |->
            IF transactions[i].direction = direction
            THEN transactions[i].value ELSE 0])

\* InsiderFlowDetector._determine_direction_signal
_determine_direction_signal(transactions, score) ==
    LET total_buy_value == TotalValue(transactions, "buy")
        total_sell_value == TotalValue(transactions, "sell")
    IN  IF score >= Pts(30) /\ total_buy_value > total_sell_value THEN "bullish"
        ELSE IF total_sell_value > total_buy_value * 2 /\ score < Pts(20)
        THEN "bearish"
        ELSE "neutral"

\* InsiderFlowDetector.analyze_stock once the transactions are fetched
InsiderAnalyze(transactions, price_near_dip) ==
    LET cluster_size == InsiderClusterSize(transactions)
        score == InsiderCalculateScore(transactions, cluster_size, price_near_dip)
    IN  IF transactions = <<>> THEN InsiderNeutral("")
        ELSE Signal(score, _determine_direction_signal(transactions, score),
                    FALSE, "",
                    [count |-> Len(transactions), cluster_size |-> cluster_size])

(***************************************************************************)
(* Social sentiment (src/src/signals/social_sentiment.py).  A velocity is  *)
(* a ratio <<numerator, denominator>>.                                     *)
(***************************************************************************)
RANK_TOP_10 == 10
RANK_TOP_25 == 25
RANK_TOP_50 == 50
VELOCITY_ACCELERATION_THRESHOLD == 3
VELOCITY_BONUS_POINTS == 15

\* _neutral_result of social_sentiment.py
SocialNeutral(error) == Signal(0, "neutral", FALSE, error, NoDetail)

\* SocialSentimentScorer._calculate_velocity; history is the ticker's
\* stored snapshots <<timestamp, count>>
_calculate_velocity(history, current_mentions, mentions_24h_ago) ==
    IF mentions_24h_ago > 0 THEN <<current_mentions, mentions_24h_ago>>
    ELSE IF Len(history) < 2 THEN <<1, 1>>
    ELSE IF history[1][2] > 0 THEN <<current_mentions, history[1][2]>>
    ELSE IF current_mentions > 0 THEN <<current_mentions, 1>>
    ELSE <<1, 1>>

\* SocialSentimentScorer._calculate_score
SocialCalculateScore(rank, upvotes, accelerating) ==
    LET base == IF rank <= RANK_TOP_10 THEN Pts(90) - (rank - 1) * 2200
                ELSE IF rank <= RANK_TOP_25
                THEN Pts(70) - (rank - RANK_TOP_10) * 1330
                ELSE IF rank <= RANK_TOP_50
                THEN Pts(50) - (rank - RANK_TOP_25) * 800
                ELSE SetMax({Pts(5), Pts(30) - (rank - RANK_TOP_50) * 500})
        velocity == IF accelerating THEN Pts(VELOCITY_BONUS_POINTS) ELSE 0
        upvote == IF upvotes > 1000 THEN Pts(5)
                  ELSE IF upvotes > 500 THEN Pts(3)
                  ELSE IF upvotes > 100 THEN Pts(1)
                  ELSE 0
    IN  SetMin({Pts(100), SetMax({0, base + velocity + upvote})})

\* _determine_direction with the momentum test before the warning
SocialDetermineDirection_MomentumFirst(rank, velocity, accelerating, score) ==
    IF score >= Pts(30) /\ 5 * velocity[1] > 4 * velocity[2]
    THEN "bullish_momentum"
    ELSE IF rank <= RANK_TOP_10 /\ 5 * velocity[1] < 4 * velocity[2]
    THEN "contrarian_warning"
    ELSE "neutral"

\* SocialSentimentScorer._determine_direction
SocialDetermineDirection(rank, velocity, accelerating, score) ==
    IF score >= Pts(50) /\ accelerating THEN "bullish_momentum"
    ELSE IF rank <= RANK_TOP_10 /\ 5 * velocity[1] < 4 * velocity[2]
    THEN "contrarian_warning"
    ELSE IF score >= Pts(30) /\ velocity[1] > velocity[2]
    THEN "bullish_momentum"
    ELSE "neutral"

\* SocialSentimentScorer._score_ticker against the fetched or cached data
SocialScoreTicker(ticker, data, history) ==
    LET found == {i \in 1..Len(data) : Upper(GetOr(data[i].ticker, "")) = ticker}
        entry == data[SetMin(found)]
        velocity == _calculate_velocity(history, entry.mentions,
                                        entry.mentions_24h_ago)
        accelerating ==
            velocity[1] >= VELOCITY_ACCELERATION_THRESHOLD * velocity[2]
        score == SocialCalculateScore(entry.rank, entry.upvotes, accelerating)
    IN  IF found = {} THEN SocialNeutral("")
        ELSE Signal(score,
                    SocialDetermineDirection(entry.rank, velocity,
                                             accelerating, score),
                    FALSE, "",
                    [count |-> entry.mentions, rank |-> entry.rank,
                     velocity |-> velocity])

\* SocialSentimentScorer._update_history: history maps a ticker to its
\* snapshots <<timestamp, count>>, the ones of the last 48 hours
HISTORY_HOURS == 48
NoHistory == [t \in {} |-> <<>>]
HistoryOf(history, ticker) ==
    IF ticker \in DOMAIN history THEN history[ticker] ELSE <<>>

RECURSIVE _update_history(_, _, _)
_update_history(history, data, timestamp) ==
    IF data = <<>> THEN history
    ELSE LET ticker == GetOr(data[1].ticker, "")
             kept == SelectSeq(
                 Append(HistoryOf(history, ticker), <<timestamp, data[1].mentions>>),
                 LAMBDA e : e[1] > timestamp - HISTORY_HOURS)
             updated == [t \in DOMAIN history \cup {ticker} |->
                            IF t = ticker THEN kept ELSE history[t]]
         IN  _update_history(IF ticker = "" THEN history ELSE updated,
                             Tail(data), timestamp)

(***************************************************************************)
(* What a data source answers: a payload at the time of the call, or the   *)
(* exception the fetch layer meets.  Timeout, ConnectionError, HTTPError   *)
(* and TooManyRedirects are requests exceptions; ValueError is a payload   *)
(* that does not parse; AttributeError and KeyError are a payload that     *)
(* parses but is not shaped as the code expects.                           *)
(***************************************************************************)
MaxExtra == 2       \* records added to a base list of evidence
Today == 100        \* the day of the call

NetworkErrors == {"Timeout", "ConnectionError", "HTTPError", "TooManyRedirects"}
ShapeErrors == {"AttributeError", "KeyError"}
FailureKinds == NetworkErrors \cup {"ValueError"} \cup ShapeErrors

Failure(kind) == [st |-> "fail", kind |-> kind, now |-> Days(Today), data |-> <<>>]
Payload(now, data) == [st |-> "ok", kind |-> "", now |-> now, data |-> data]
Failures == {Failure(kind) : kind \in FailureKinds}

\* midnight and noon of the day of the call
Clocks == {Days(Today), Days(Today) + 12}

\* base lists extended by up to n records
RECURSIVE Extended(_, _, _)
Extended(bases, records, n) ==
    IF n = 0 THEN bases
    ELSE LET shorter == Extended(bases, records, n - 1)
         IN  shorter \cup {Append(l, x) : l \in shorter, x \in records}

Payloads(bases, records) ==
    {Payload(now, data) : now \in Clocks, data \in Extended(bases, records, MaxExtra)}

Call(ticker, via, setting) == [ticker |-> ticker, via |-> via, setting |-> setting]
Entries == {"analyze_stock", "analyze_batch"}

\* --- congressional trades ------------------------------------------------
Trade(ticker, type, age, representative, amount) ==
    [ticker |-> ticker, type |-> type,
     disclosure_date |-> IF age = NoDate THEN NoDate ELSE Today - age,
     representative |-> representative, amount |-> amount]

CongressRecords ==
    { Trade("TEST", "purchase", 3, "A", "$1,001 - $15,000"),
      Trade("test", "Purchase", 7, "B", "$50,001 - $100,000"),
      Trade("TEST", "purchase", 30, "C", "$100,000"),
      Trade("TEST", "purchase", 45, Missing, "$90,000 - $109,998"),
      Trade("TEST", "purchase", 46, "B", "Over $50,000,000"),
      Trade("TEST", "sale_full", 2, "C", "$100,001 - $250,000"),
      Trade("MSFT", "purchase", 1, "C", "$100,001 - $250,000"),
      Trade("TEST", "purchase", NoDate, "C", "$100,001 - $250,000") }

CongressBases ==
    { <<>>,
      [i \in 1..4 |-> Trade("TEST", "purchase", 20, "A", "$15,001 - $50,000")] }

\* CongressTradesTracker.analyze_stock and analyze_batch, on a new tracker:
\* only the fetch is inside the try
CongressAnalyze(c, up) ==
    IF up.st = "fail"
    THEN IF up.kind \in ShapeErrors THEN Raise(up.kind)
         ELSE CongressNeutral(up.kind)
    ELSE CongressScoreTicker(UpperStrip(c.ticker), up.data, up.now)

CongressAnalyzeStock ==
    /\ ppc = "idle"
    /\ \E c \in {Call(t, via, 0) : t \in {"TEST", "test"}, via \in Entries},
          up \in Failures \cup Payloads(CongressBases, CongressRecords) :
           /\ call' = c
           /\ upstream' = up
           /\ out' = CongressAnalyze(c, up)
    /\ ppc' = "congress"
    /\ UNCHANGED outside_producers

\* --- options flow --------------------------------------------------------
Contract(option_type, volume, open_interest, last, expiration) ==
    [option_type |-> option_type, volume |-> volume,
     open_interest |-> open_interest, last |-> last, expiration |-> expiration]

OptionsRecords ==
    { Contract("call", 100, 1000, 1, 30),
      Contract("put", 5000, 10000, 1, 30),
      Contract("call", 300, 100, 2, 30),
      Contract("call", 6000, 1000, 20, 7),
      Contract("put", 300, 100, 2, NoDate),
      Contract("put", 500, 100, 1, 14),
      Contract("put", 6000, 1000, 20, 7),
      Contract("put", 10, 0, 1, 7) }

OptionsBases ==
    { <<>>,
      [i \in 1..2 |-> Contract("put", 600, 100, 30, 7)],
      [i \in 1..2 |-> Contract("call", 600, 100, 30, 7)] }

\* OptionsFlowScanner.analyze_stock; setting says whether an API key is
\* configured.  analyze_batch calls analyze_stock.
OptionsAnalyze(c, up) ==
    IF ~c.setting \/ up.st = "fail" \/ up.data = <<>> THEN OptionsNeutral
    ELSE OptionsAnalyzeContracts(up.data)

OptionsAnalyzeStock ==
    /\ ppc = "idle"
    /\ \E c \in {Call("TEST", via, key) : via \in Entries, key \in BOOLEAN},
          up \in Failures \cup Payloads(OptionsBases, OptionsRecords) :
           /\ call' = c
           /\ upstream' = up
           /\ out' = OptionsAnalyze(c, up)
    /\ ppc' = "options"
    /\ UNCHANGED outside_producers

\* --- fails-to-deliver ----------------------------------------------------
Ftd(settlement_date, quantity) ==
    [settlement_date |-> settlement_date, quantity |-> quantity]
Short(date, short_volume, total_volume) ==
    [date |-> date, short_volume |-> short_volume, total_volume |-> total_volume]

FtdRecords ==
    { Ftd(6, 20000), Ftd(6, 0), Ftd(0, 50000), Ftd(7, 150000) }

FtdBases ==
    { <<>>,
      [i \in 1..5 |-> Ftd(i, IF i = 5 THEN 20000 ELSE 0)],
      [i \in 1..4 |-> Ftd(i, 30000 - 5000 * i)] }

ShortLists ==
    { <<>>,
      <<Short(1, 95, 100), Short(2, 75, 100)>>,
      <<Short(1, 80, 100), Short(2, 56, 100)>>,
      <<Short(1, 80, 100), Short(2, 40, 80)>>,
      <<Short(1, 70, 100), Short(2, 49, 100)>>,
      <<Short(1, 50, 100), Short(2, 90, 100)>>,
      <<Short(2, 10, 100), Short(1, 30, 100), Short(3, 0, 0)>> }

SpikeThresholds == {2, 5}

\* FTDShortTracker.analyze_stock and analyze_batch, on a new tracker: a
\* period whose download or parse fails adds nothing to the cache
FtdAnalyze(c, up) ==
    IF up.st = "fail" THEN FtdBuildSignal(<<>>, <<>>, c.setting)
    ELSE FtdBuildSignal(up.data, up.short, c.setting)

FtdAnalyzeStock ==
    /\ ppc = "idle"
    /\ \E c \in {Call("TEST", via, th) : via \in Entries, th \in SpikeThresholds},
          up \in Failures \cup
              {[st |-> "ok", kind |-> "", now |-> Days(Today), data |-> d, short |-> sh] :
                  d \in Extended(FtdBases, FtdRecords, MaxExtra), sh \in ShortLists} :
           /\ call' = c
           /\ upstream' = up
           /\ out' = FtdAnalyze(c, up)
    /\ ppc' = "ftd"
    /\ UNCHANGED outside_producers

\* --- dark pool -----------------------------------------------------------
Row(short_volume_ratio, TotalVolume) ==
    [short_volume_ratio |-> short_volume_ratio, TotalVolume |-> TotalVolume]

DarkPoolRecords == { Row(2, 1), Row(9, 1), Row(5, 0), Row(1, 9) }

DarkPoolBases ==
    { <<>>,
      [i \in 1..3 |-> Row(0, 0)],
      [i \in 1..6 |-> Row(IF i = 6 THEN 2 ELSE 6, 1)],
      [i \in 1..6 |-> Row(10 - i, 1)],
      [i \in 1..6 |-> Row(i, 1)] }

\* DarkPoolAnalyzer.analyze_stock; analyze_batch calls analyze_stock.  A
\* download that fails gives no file, so no rows for the day.
DarkPoolAnalyze(c, up) ==
    IF up.st = "fail"
    THEN IF up.kind \in NetworkErrors THEN DarkPoolNeutral("insufficient_data")
         ELSE DarkPoolNeutral(up.kind)
    ELSE IF Len(up.data) < MIN_ROWS THEN DarkPoolNeutral("insufficient_data")
    ELSE DarkPoolScoreSignals(up.data)

DarkPoolAnalyzeStock ==
    /\ ppc = "idle"
    /\ \E c \in {Call("TEST", via, 0) : via \in Entries},
          up \in Failures \cup Payloads(DarkPoolBases, DarkPoolRecords) :
           /\ call' = c
           /\ upstream' = up
           /\ out' = DarkPoolAnalyze(c, up)
    /\ ppc' = "dark_pool"
    /\ UNCHANGED outside_producers

\* --- insider flow --------------------------------------------------------
Txn(direction, owner_role, value, owner_name, date) ==
    [direction |-> direction, owner_role |-> owner_role, value |-> value,
     owner_name |-> owner_name, date |-> date]

InsiderRecords ==
    { Txn("buy", "Chief Executive Officer", 1000000, "A", 10),
      Txn("buy", "Director", 60000, "B", 24),
      Txn("buy", "", 10000, "C", 25),
      Txn("sell", "CFO", 2000000, "A", 11),
      Txn("buy", "CFO", 500000, "B", NoDate) }

InsiderBases ==
    { <<>>,
      [i \in 1..9 |-> Txn("buy", "Chief Executive Officer", 1000000, "A", 10)],
      [i \in 1..3 |-> Txn("sell", "Chief Executive Officer", 1000000, "A", 10)] }

\* the exceptions _fetch_form4_filings catches, and analyze_batch on top
InsiderCaught == NetworkErrors \cup {"ValueError", "AttributeError"}
InsiderBatchCaught == InsiderCaught \cup {"KeyError"}

\* InsiderFlowDetector.analyze_stock and analyze_batch; setting is whether
\* the price is in a dip
InsiderAnalyzeCall(c, up) ==
    IF up.st = "fail"
    THEN IF up.kind \in InsiderCaught THEN InsiderNeutral("")
         ELSE IF c.via = "analyze_batch" /\ up.kind \in InsiderBatchCaught
         THEN InsiderNeutral(up.kind)
         ELSE Raise(up.kind)
    ELSE InsiderAnalyze(up.data, c.setting)

InsiderAnalyzeStock ==
    /\ ppc = "idle"
    /\ \E c \in {Call("TEST", via, dip) : via \in Entries, dip \in BOOLEAN},
          up \in Failures \cup Payloads(InsiderBases, InsiderRecords) :
           /\ call' = c
           /\ upstream' = up
           /\ out' = InsiderAnalyzeCall(c, up)
    /\ ppc' = "insider"
    /\ UNCHANGED outside_producers

\* --- social sentiment ----------------------------------------------------
Item(ticker, rank, mentions, upvotes, mentions_24h_ago) ==
    [ticker |-> ticker, rank |-> rank, mentions |-> mentions,
     upvotes |-> upvotes, mentions_24h_ago |-> mentions_24h_ago]

SocialRecords ==
    { Item("TEST", 1, 900, 5000, 100),
      Item("test", 10, 40, 600, 100),
      Item("TEST", 5, 90, 2000, 100),
      Item("TEST", 11, 50, 200, 0),
      Item("TEST", 26, 10, 0, 10),
      Item("TEST", 500, 3, 0, 1),
      Item("TEST", 0 - 50, 0, 0, 0),
      Item("GME", 1, 900, 5000, 100),
      Item(Missing, 3, 30, 0, 30) }

SocialBases == { <<>> }

\* the exceptions _get_social_data catches
SocialCaught == {"Timeout", "ConnectionError", "HTTPError", "ValueError", "KeyError"}

\* SocialSentimentScorer.analyze_stock and analyze_batch, on a new scorer
SocialAnalyze(c, up) ==
    IF up.st = "fail"
    THEN IF up.kind \in SocialCaught THEN SocialNeutral("apewisdom_unavailable")
         ELSE Raise(up.kind)
    ELSE IF up.data = <<>> THEN SocialNeutral("apewisdom_unavailable")
    ELSE SocialScoreTicker(Upper(c.ticker), up.data,
             HistoryOf(_update_history(NoHistory, up.data, up.now), Upper(c.ticker)))

SocialAnalyzeStock ==
    /\ ppc = "idle"
    /\ \E c \in {Call(t, via, 0) : t \in {"TEST", "test"}, via \in Entries},
          up \in Failures \cup Payloads(SocialBases, SocialRecords) :
           /\ call' = c
           /\ upstream' = up
           /\ out' = SocialAnalyze(c, up)
    /\ ppc' = "social"
    /\ UNCHANGED outside_producers

\* the caller takes the result; a producer can be called again
ProducerReturn ==
    /\ ppc # "idle"
    /\ ppc' = "idle"
    /\ call' = NoCall
    /\ upstream' = NoUpstream
    /\ out' = NoOut
    /\ UNCHANGED outside_producers

\* an engine with the default configuration, not in use
DefaultEngine ==
    /\ config = Config({}, NoWeights, <<>>, 0, 0)
    /\ weights = _load_weights(config)
    /\ dark_signal_keys = DEFAULT_DARK_SIGNAL_KEYS
    /\ dark_flow_min = 3
    /\ strong_signal_min = 2
    /\ Idle

ProducerInit ==
    DefaultEngine /\ ProducersIdle /\ ThreadsIdle /\ RunIdle /\ CachesIdle /\ RestIdle

ProducerNext ==
    \/ InsiderAnalyzeStock
    \/ DarkPoolAnalyzeStock
    \/ OptionsAnalyzeStock
    \/ CongressAnalyzeStock
    \/ FtdAnalyzeStock
    \/ SocialAnalyzeStock
    \/ ProducerReturn

ProducerSpec == ProducerInit /\ [][ProducerNext]_vars

(***************************************************************************)
(* Pool workers on one shared engine (src/main.py:179-183 and 351).  Each  *)
(* worker calls calculate_conviction_score or assess_risk with a dict of   *)
(* its own; a step of a worker is the code from one read of the engine's   *)
(* fields to the next, and the steps of different workers interleave.  The *)
(* weighted sum is kept as a numerator over the weight table's             *)
(* denominator.                                                            *)
(***************************************************************************)
PoolInputs ==
    { EmptyDict, TwoDark,
      [Conflict EXCEPT !["technical_score"] = Num(Pts(200))],
      [TwoDark EXCEPT !["social_signal_score"] = Huge] }

PoolConfigs ==
    { Config({}, NoWeights, <<>>, 0, 0),
      Config({"dark_signal_keys", "dark_flow_alert_min_signals",
              "strong_signal_min_signals"},
             NoWeights, <<"insider_flow", "social", "short_interest">>, 2, 1) }

NoLocals ==
    [signal_scores |-> [k \in {} |-> 0], weighted_sum |-> 0,
     active_dark_signals |-> <<>>, conviction_level |-> ""]

\* a worker calls an operation of the engine on its dict
Enter(op, sd) ==
    [pc |-> op, op |-> op, stock_data |-> sd, locals |-> NoLocals,
     result |-> NoResult]

EnterCalculate(t) ==
    /\ threads[t].pc = "idle"
    /\ \E sd \in PoolInputs :
           threads' = [threads EXCEPT ![t] = Enter("calculate_conviction_score", sd)]
    /\ UNCHANGED outside_pool

\* step 1 with the scores written back into the caller's dict
Weigh_InPlace(t) ==
    /\ threads[t].pc = "calculate_conviction_score"
    /\ LET sd == threads[t].stock_data
           score == [k \in WeightKeys |-> _get_signal_score(sd, k)]
       IN  threads' = [threads EXCEPT ![t] =
               IF \E k \in WeightKeys : score[k].st # "ok"
               THEN [@ EXCEPT !.pc = "done", !.result = Raised("OverflowError")]
               ELSE [@ EXCEPT !.pc = "confluence",
                              !.stock_data =
                                  [k \in DOMAIN sd |->
                                      IF \E w \in WeightKeys : WEIGHT_TO_SCORE_KEY[w] = k
                                      THEN Num(score[CHOOSE w \in WeightKeys :
                                                       WEIGHT_TO_SCORE_KEY[w] = k].v)
                                      ELSE sd[k]],
                              !.locals =
                                  [NoLocals EXCEPT
                                      !.signal_scores =
                                          [k \in WeightKeys |-> Round2(score[k].v, 1)],
                                      !.weighted_sum =
                                          WeightedNum(score, Len(KeyOrder))]]]
    /\ UNCHANGED outside_pool

\* step 1 of calculate_conviction_score: reads self.weights
Weigh(t) ==
    /\ threads[t].pc = "calculate_conviction_score"
    /\ LET sd == threads[t].stock_data
           score == [k \in WeightKeys |-> _get_signal_score(sd, k)]
       IN  threads' = [threads EXCEPT ![t] =
               IF \E k \in WeightKeys : score[k].st # "ok"
               THEN [@ EXCEPT !.pc = "done", !.result = Raised("OverflowError")]
               ELSE [@ EXCEPT !.pc = "confluence",
                              !.locals =
                                  [NoLocals EXCEPT
                                      !.signal_scores =
                                          [k \in WeightKeys |-> Round2(score[k].v, 1)],
                                      !.weighted_sum =
                                          WeightedNum(score, Len(KeyOrder))]]]
    /\ UNCHANGED outside_pool

\* step 2: reads self.dark_signal_keys and the two thresholds
DetectConfluence(t) ==
    /\ threads[t].pc = "confluence"
    /\ LET l == threads[t].locals
           active == _detect_active_dark_signals(l.signal_scores)
       IN  threads' = [threads EXCEPT ![t] =
               [@ EXCEPT !.pc = "compose",
                         !.locals =
                             [l EXCEPT
                                 !.active_dark_signals = active,
                                 !.conviction_level =
                                     get_conviction_level(l.weighted_sum, active)]]]
    /\ UNCHANGED outside_pool

\* steps 3 and 4, and the return
ComposeResult(t) ==
    /\ threads[t].pc = "compose"
    /\ LET l == threads[t].locals
       IN  threads' = [threads EXCEPT ![t] =
               [@ EXCEPT !.pc = "done",
                         !.result =
                             Compose(threads[t].stock_data, l.signal_scores,
                                     l.weighted_sum, l.active_dark_signals,
                                     l.conviction_level)]]
    /\ UNCHANGED outside_pool

EnterAssessRisk(t) ==
    /\ threads[t].pc = "idle"
    /\ \E sd \in PoolInputs :
           threads' = [threads EXCEPT ![t] = Enter("assess_risk", sd)]
    /\ UNCHANGED outside_pool

\* assess_risk reads no field of the engine
AssessRiskBody(t) ==
    /\ threads[t].pc = "assess_risk"
    /\ threads' = [threads EXCEPT ![t] =
           [@ EXCEPT !.pc = "done", !.result = assess_risk(threads[t].stock_data)]]
    /\ UNCHANGED outside_pool

\* the worker takes the return value
Leave(t) ==
    /\ threads[t].pc = "done"
    /\ threads' = [threads EXCEPT ![t] = NoThread]
    /\ UNCHANGED outside_pool

PoolInit ==
    /\ config \in PoolConfigs
    /\ weights = _load_weights(config)
    /\ dark_signal_keys =
           ConfigGet(config, "dark_signal_keys", DEFAULT_DARK_SIGNAL_KEYS)
    /\ dark_flow_min = ConfigGet(config, "dark_flow_alert_min_signals", 3)
    /\ strong_signal_min = ConfigGet(config, "strong_signal_min_signals", 2)
    /\ Idle
    /\ ProducersIdle
    /\ ThreadsIdle
    /\ RunIdle
    /\ CachesIdle
    /\ RestIdle

PoolNext ==
    \E t \in Workers :
        \/ EnterCalculate(t)
        \/ Weigh(t)
        \/ DetectConfluence(t)
        \/ ComposeResult(t)
        \/ EnterAssessRisk(t)
        \/ AssessRiskBody(t)
        \/ Leave(t)

PoolSpec == PoolInit /\ [][PoolNext]_vars

(***************************************************************************)
(* TradeSourcer.run_analysis up to the end of the pool (src/main.py        *)
(* 153-205) with _analyze_stock (266-354).  A stock dict is a function     *)
(* from its keys to values of the kinds the engine reads.  What a ticker's *)
(* worker meets is its scenario: the state of the market data, and the     *)
(* condition of the detectors' data sources.  The indicator modules are    *)
(* outside this model: on available market data they give neutral scores.  *)
(***************************************************************************)
MaxTickers == 2     \* length of the ticker list of a run

DetectorOrder == <<"insider", "darkpool", "options", "congress", "ftd", "social">>
AllDetectors == {DetectorOrder[i] : i \in 1..Len(DetectorOrder)}

\* a str value that is no number
Msg(s) == [t |-> "str", v |-> 0, s |-> <<s>>]

\* the tickers of a run: the first n of TEST, MSFT, TEST, ...
TickerList(n) == [i \in 1..n |-> IF i % 2 = 1 THEN "TEST" ELSE "MSFT"]

\* the detectors whose import succeeded
DetectorSets == { {}, AllDetectors, {"insider", "options", "ftd", "social"} }

Markets == {"ok", "no_data", "no_info", "raises"}
\* every source has data, every source fails, or every source has data but
\* EDGAR holds no Form 4 filing of the ticker
Conditions == {"data", "Timeout", "TooManyRedirects", "no_filings"}
Scenarios ==
    {[market |-> m, condition |-> c] :
        m \in Markets, c \in Conditions} \
    {[market |-> m, condition |-> c] :
        m \in Markets \ {"ok"}, c \in Conditions \ {"data"}}

\* what a detector's data source answers under a condition
Answer(detector, condition) ==
    IF condition \in FailureKinds THEN Failure(condition)
    ELSE IF condition = "no_filings" /\ detector = "insider"
    THEN Payload(Days(Today), <<>>)
    ELSE CASE detector = "insider" ->
                  Payload(Days(Today),
                          [i \in 1..9 |-> Txn("buy", "Chief Executive Officer",
                                              1000000, "A", 10)])
           [] detector = "darkpool" ->
                  Payload(Days(Today), [i \in 1..6 |-> Row(10 - i, 1)])
           [] detector = "options" ->
                  Payload(Days(Today),
                          [i \in 1..2 |-> Contract("call", 600, 100, 30, 7)])
           [] detector = "congress" ->
                  Payload(Days(Today),
                          [i \in 1..4 |-> Trade("TEST", "purchase", 20, "A",
                                                "$15,001 - $50,000")])
           [] detector = "ftd" ->
                  [st |-> "ok", kind |-> "", now |-> Days(Today),
                   data |-> [i \in 1..5 |-> Ftd(i, IF i = 5 THEN 20000 ELSE 0)],
                   short |-> <<Short(1, 95, 100), Short(2, 75, 100)>>]
           [] detector = "social" ->
                  Payload(Days(Today), <<Item("TEST", 1, 900, 5000, 100)>>)

\* self.signal_detectors[detector].analyze_stock(ticker)
Detect(detector, ticker, condition) ==
    LET up == Answer(detector, condition)
    IN  CASE detector = "insider" ->
                 InsiderAnalyzeCall(Call(ticker, "analyze_stock", FALSE), up)
          [] detector = "darkpool" ->
                 DarkPoolAnalyze(Call(ticker, "analyze_stock", 0), up)
          [] detector = "options" ->
                 OptionsAnalyze(Call(ticker, "analyze_stock", TRUE), up)
          [] detector = "congress" ->
                 CongressAnalyze(Call(ticker, "analyze_stock", 0), up)
          [] detector = "ftd" ->
                 FtdAnalyze(Call(ticker, "analyze_stock", 5), up)
          [] detector = "social" ->
                 SocialAnalyze(Call(ticker, "analyze_stock", 0), up)

ScoreKeyOf(detector) ==
    CASE detector = "insider" -> "insider_signal_score"
      [] detector = "darkpool" -> "darkpool_signal_score"
      [] detector = "options" -> "options_signal_score"
      [] detector = "congress" -> "congress_signal_score"
      [] detector = "ftd" -> "ftd_signal_score"
      [] detector = "social" -> "social_signal_score"

\* what the six analyze_stock calls of one worker give, by detector
Detections(ticker, condition) ==
    [d \in AllDetectors |-> Detect(d, ticker, condition)]

\* the detectors whose analyze_stock came back with a result dict; what a
\* detector raises is logged and dropped
Returned(res) ==
    {d \in signal_detectors : res[d].st = "ok"}

\* the last detector, in the order of the calls, whose result holds 'error'
LastWithError(res) ==
    LET having == {i \in 1..Len(DetectorOrder) :
                      /\ DetectorOrder[i] \in Returned(res)
                      /\ res[DetectorOrder[i]].error_key}
    IN  IF having = {} THEN 0 ELSE SetMax(having)

\* signal_data after the six update() calls: the keys the run reads
SignalData(res) ==
    LET returned == Returned(res)
        last == LastWithError(res)
        error == res[DetectorOrder[last]].error
    IN  [k \in {ScoreKeyOf(d) : d \in returned}
               \cup (IF last = 0 THEN {} ELSE {"error"}) |->
            IF k = "error" THEN (IF error = "" THEN None ELSE Msg(error))
            ELSE Num(res[CHOOSE d \in returned : ScoreKeyOf(d) = k].score)]

\* technical, volatility and fundamental analysis of available market data
Traditional ==
    [k \in {"technical_score", "fundamental_score", "volatility_score"} |->
        Num(NEUTRAL_SCORE)]

\* the keys of the engine's result that update() adds to the stock dict
ConvictionDict(conviction) ==
    [k \in {"conviction_score", "conviction_level", "active_dark_signal_count",
            "risk_level"} |->
        CASE k = "conviction_score" -> Num(conviction.conviction_score)
          [] k = "risk_level" -> Msg(conviction.risk_level)
          [] k = "conviction_level" -> Msg(conviction.conviction_level)
          [] k = "active_dark_signal_count" -> Num(conviction.active_dark_signal_count)]

\* result.update(conviction_result), or what the engine raised
Update(combined, conviction) ==
    IF conviction.st # "ok" THEN Raised(conviction.st)
    ELSE ConvictionDict(conviction) @@ combined

\* the result dict is built, scored by the engine and updated
Score(combined) ==
    Update(combined, calculate_conviction_score(combined))

\* TradeSourcer._analyze_stock: the stock dict, or the exception raised
_analyze_stock(ticker, scenario) ==
    IF scenario.market = "raises" THEN Raised("RuntimeError")
    ELSE IF scenario.market = "no_data"
    THEN [k \in {"ticker", "error"} |->
             IF k = "ticker" THEN Msg(ticker) ELSE Msg("No market data")]
    ELSE IF scenario.market = "no_info"
    THEN [k \in {"ticker", "error"} |->
             IF k = "ticker" THEN Msg(ticker) ELSE Msg("No stock info")]
    ELSE Score(SignalData(Detections(ticker, scenario.condition))
                   @@ Traditional @@ [k \in {"ticker"} |-> Msg(ticker)])

\* what the worker raised is an exception, not a dict
IsException(r) == "st" \in DOMAIN r

\* the except clause of analyze_stock_safe
Caught(ticker, r) ==
    IF IsException(r)
    THEN [k \in {"ticker", "_exception"} |->
             IF k = "ticker" THEN Msg(ticker) ELSE Msg(r.st)]
    ELSE r

\* analyze_stock_safe without its try block
analyze_stock_safe_Unguarded(ticker, scenario) ==
    _analyze_stock(ticker, scenario)

\* analyze_stock_safe, the function the pool runs
analyze_stock_safe(ticker, scenario) ==
    Caught(ticker, _analyze_stock(ticker, scenario))

Pending == [st |-> "pending", scenario |-> [market |-> "", condition |-> ""],
            stock_data |-> [k \in {} |-> None]]

\* the list in which the loop body records a stock dict
Recorded(sd) ==
    IF "_exception" \in DOMAIN sd THEN "failed"
    ELSE IF "error" \notin DOMAIN sd THEN "analyzed"
    ELSE "failed"

\* the message recorded with a failed ticker
ErrorMsg(sd) ==
    IF "_exception" \in DOMAIN sd THEN sd["_exception"]
    ELSE sd["error"]

\* run_analysis is called and submits every ticker to the pool
RunInit ==
    /\ DefaultEngine
    /\ ProducersIdle
    /\ ThreadsIdle
    /\ CachesIdle
    /\ RestIdle
    /\ \E n \in 0..MaxTickers : tickers = TickerList(n)
    /\ signal_detectors \in DetectorSets
    /\ futures = [i \in 1..Len(tickers) |-> Pending]
    /\ completed_count = 0
    /\ analyzed_stocks = <<>>
    /\ failed_stocks = <<>>
    /\ progress_lock = 0
    /\ phase = "pool"

\* a pool worker runs analyze_stock_safe(ticker) to its end
Work(i) ==
    /\ phase = "pool"
    /\ futures[i].st = "pending"
    /\ \E scenario \in Scenarios :
           futures' = [futures EXCEPT ![i] =
               [st |-> "done", scenario |-> scenario,
                stock_data |-> analyze_stock_safe(tickers[i], scenario)]]
    /\ UNCHANGED <<tickers, signal_detectors, completed_count, analyzed_stocks,
                   failed_stocks, progress_lock, phase, outside_run>>

\* as_completed yields a finished future; the main thread takes its result
\* and the lock.  A result that is an exception ends run_analysis.
TakeResult(i) ==
    /\ phase = "pool"
    /\ progress_lock = 0
    /\ futures[i].st = "done"
    /\ IF IsException(futures[i].stock_data)
       THEN phase' = "aborted" /\ UNCHANGED progress_lock
       ELSE progress_lock' = i /\ UNCHANGED phase
    /\ UNCHANGED <<tickers, signal_detectors, futures, completed_count,
                   analyzed_stocks, failed_stocks, outside_run>>

\* the body of the loop, under the lock
Record ==
    /\ phase = "pool"
    /\ progress_lock # 0
    /\ LET sd == futures[progress_lock].stock_data
       IN  /\ completed_count' = completed_count + 1
           /\ IF Recorded(sd) = "analyzed"
              THEN /\ analyzed_stocks' = Append(analyzed_stocks, sd)
                   /\ UNCHANGED failed_stocks
              ELSE /\ failed_stocks' =
                          Append(failed_stocks,
                                 <<tickers[progress_lock], ErrorMsg(sd)>>)
                   /\ UNCHANGED analyzed_stocks
    /\ futures' = [futures EXCEPT ![progress_lock].st = "collected"]
    /\ progress_lock' = 0
    /\ UNCHANGED <<tickers, signal_detectors, phase, outside_run>>

\* the pool is left: every future has been yielded
PoolFinished ==
    /\ phase = "pool"
    /\ \A i \in 1..Len(futures) : futures[i].st = "collected"
    /\ phase' = "finished"
    /\ UNCHANGED <<tickers, signal_detectors, futures, completed_count,
                   analyzed_stocks, failed_stocks, progress_lock, outside_run>>

RunNext ==
    \/ \E i \in 1..Len(tickers) : Work(i) \/ TakeResult(i)
    \/ Record
    \/ PoolFinished

RunSpec == RunInit /\ [][RunNext]_vars

(***************************************************************************)
(* One SocialSentimentScorer over a sequence of analyze_stock calls        *)
(* (src/src/signals/social_sentiment.py 80-173): _cache and _history       *)
(* persist between the calls and the clock advances.  A fetch is the loop  *)
(* over the pages; its answer is a failure the method catches, or the      *)
(* results of all pages.  The failures it does not catch leave             *)
(* analyze_stock as exceptions (SocialAnalyze).                            *)
(***************************************************************************)
MaxHours == 2       \* hours the clock advances
MaxFetches == 3     \* fetches of one scorer
CACHE_TTL_HOURS == 1

ScorerAnswers ==
    {Failure(kind) : kind \in {"Timeout", "ConnectionError", "HTTPError", "ValueError"}}
        \cup {Payload(0, data) : data \in
                 { <<>>,
                   <<Item("TEST", 1, 900, 5000, 100)>>,
                   <<Item("TEST", 26, 10, 0, 10)>>,
                   <<Item("GME", 1, 900, 5000, 100)>> }}

\* SocialSentimentScorer._get_social_data: the data returned (None or a
\* list), the cache and the history it leaves, and what became of the fetch
_get_social_data(cache, history, now, up) ==
    IF cache # None /\ now - cache.timestamp < CACHE_TTL_HOURS
    THEN [data |-> cache.data, cache |-> cache, history |-> history,
          fetch |-> "none"]
    ELSE IF up.st = "fail" \/ up.data = <<>>
    THEN [data |-> IF cache # None THEN cache.data ELSE None,
          cache |-> cache, history |-> history,
          fetch |-> IF up.st = "fail" THEN "failed" ELSE "empty"]
    ELSE [data |-> up.data,
          cache |-> [data |-> up.data, timestamp |-> now],
          history |-> _update_history(history, up.data, now),
          fetch |-> "ok"]

\* SocialSentimentScorer.analyze_stock once _get_social_data has returned
ScorerResult(ticker, got) ==
    IF got.data = None THEN SocialNeutral("apewisdom_unavailable")
    ELSE SocialScoreTicker(Upper(ticker), got.data,
                           HistoryOf(got.history, Upper(ticker)))

\* the state the call leaves
ScorerReturns(ticker, got) ==
    /\ _cache' = got.cache
    /\ _history' = got.history
    /\ fetch_log' = IF got.fetch = "none" THEN fetch_log
                    ELSE Append(fetch_log, got.fetch)
    /\ last_call' = [st |-> "returned", ticker |-> ticker, fetch |-> got.fetch,
                     out |-> ScorerResult(ticker, got)]

ScorerInit ==
    /\ DefaultEngine
    /\ ProducersIdle
    /\ ThreadsIdle
    /\ RunIdle
    /\ CachesIdle
    /\ RestIdle

\* SocialSentimentScorer.analyze_stock(ticker)
ScorerAnalyzeStock ==
    /\ Len(fetch_log) < MaxFetches
    /\ \E ticker \in {"TEST", "test"}, up \in ScorerAnswers :
           ScorerReturns(ticker, _get_social_data(_cache, _history, clock, up))
    /\ UNCHANGED <<clock, outside_scorer>>

\* an hour passes
Tick ==
    /\ clock < MaxHours
    /\ clock' = clock + 1
    /\ UNCHANGED <<_cache, _history, fetch_log, last_call, outside_scorer>>

ScorerNext ==
    \/ ScorerAnalyzeStock
    \/ Tick

ScorerSpec == ScorerInit /\ [][ScorerNext]_vars

\* The same scorer over days, for what its history keeps.
MaxNights == 2      \* days the scorer stays in use

\* a day passes
Night ==
    /\ clock + 24 <= MaxHours + 24 * MaxNights
    /\ clock' = clock + 24
    /\ UNCHANGED <<_cache, _history, fetch_log, last_call, outside_scorer>>

HistoryNext ==
    \/ ScorerAnalyzeStock
    \/ Tick
    \/ Night

HistorySpec == ScorerInit /\ [][HistoryNext]_vars

(***************************************************************************)
(* One FTDShortTracker shared by the workers of the pool                   *)
(* (src/src/signals/ftd_tracker.py 84-153, 210-229, 294-326): every worker *)
(* calls analyze_stock('TEST') on the tracker run_analysis installed.  The *)
(* caches are dicts from a symbol to its list of records; no lock guards   *)
(* them.  A worker's call is split where it reads or writes a cache: the   *)
(* two emptiness tests, the appends of one downloaded file, and the reads  *)
(* of _build_signal.  The files are available (a file whose download fails *)
(* adds nothing).                                                          *)
(***************************************************************************)
lookback_periods == 2
MaxDays == 1        \* FINRA daily files of one load

FtdRow(symbol, settlement_date, quantity) ==
    [symbol |-> symbol, rec |-> Ftd(settlement_date, quantity)]
ShortRow(symbol, date, short_volume, total_volume) ==
    [symbol |-> symbol, rec |-> Short(date, short_volume, total_volume)]

\* the SEC files of the periods, oldest first
SecFiles ==
    { [p \in 1..lookback_periods |->
          [i \in 1..(5 - p) |-> FtdRow("TEST", 4 * (p - 1) + i, 20000)]],
      [p \in 1..lookback_periods |->
          IF p = 1 THEN <<FtdRow("GME", 1, 50000)>>
          ELSE <<FtdRow("TEST", p, 20000), FtdRow("GME", p, 0)>>],
      [p \in 1..lookback_periods |-> <<>>] }

\* the FINRA files of the trading days
FinraFiles ==
    { [d \in 1..MaxDays |-> <<ShortRow("TEST", d, 9 - d, 10)>>],
      [d \in 1..MaxDays |-> <<>>] }

NoRecords == [s \in {} |-> <<>>]

\* cache.get(symbol, [])
CacheGet(cache, symbol) ==
    IF symbol \in DOMAIN cache THEN cache[symbol] ELSE <<>>

\* for row in rows: cache[symbol].append(row)
RECURSIVE Appended(_, _)
Appended(cache, rows) ==
    IF rows = <<>> THEN cache
    ELSE Appended([s \in DOMAIN cache \cup {rows[1].symbol} |->
                      IF s = rows[1].symbol
                      THEN Append(CacheGet(cache, s), rows[1].rec)
                      ELSE cache[s]],
                  Tail(rows))

\* a cache after one load of the files
RECURSIVE Loaded(_)
Loaded(files) ==
    IF files = <<>> THEN NoRecords
    ELSE Appended(Loaded(SubSeq(files, 1, Len(files) - 1)), files[Len(files)])

\* the worker moves on
Goto(t, pc_, k) ==
    loaders' = [loaders EXCEPT ![t].pc = pc_, ![t].k = k]

TrackerInit ==
    /\ DefaultEngine
    /\ ProducersIdle
    /\ ThreadsIdle
    /\ RunIdle
    /\ ScorerIdle
    /\ RestIdle
    /\ sec \in SecFiles
    /\ finra \in FinraFiles
    /\ _ftd_cache = NoRecords
    /\ _short_volume_cache = NoRecords
    /\ loaders = [t \in Workers |-> [NoLoader EXCEPT !.pc = "ensure_ftd"]]

\* _ensure_data_loaded: if not self._ftd_cache
EnsureFtd(t) ==
    /\ loaders[t].pc = "ensure_ftd"
    /\ IF _ftd_cache = NoRecords
       THEN Goto(t, "load_ftd", 1)
       ELSE Goto(t, "ensure_short", 0)
    /\ UNCHANGED <<sec, finra, _ftd_cache, _short_volume_cache, outside_tracker>>

\* _load_ftd_data: one period is fetched and its rows appended
LoadFtdPeriod(t) ==
    /\ loaders[t].pc = "load_ftd"
    /\ _ftd_cache' = Appended(_ftd_cache, sec[loaders[t].k])
    /\ IF loaders[t].k < Len(sec)
       THEN Goto(t, "load_ftd", loaders[t].k + 1)
       ELSE Goto(t, "ensure_short", 0)
    /\ UNCHANGED <<sec, finra, _short_volume_cache, outside_tracker>>

\* _ensure_data_loaded: if not self._short_volume_cache
EnsureShort(t) ==
    /\ loaders[t].pc = "ensure_short"
    /\ IF _short_volume_cache = NoRecords
       THEN Goto(t, "load_short", 1)
       ELSE Goto(t, "build", 0)
    /\ UNCHANGED <<sec, finra, _ftd_cache, _short_volume_cache, outside_tracker>>

\* _load_short_volume_data: one day is fetched and its rows appended
LoadShortDay(t) ==
    /\ loaders[t].pc = "load_short"
    /\ _short_volume_cache' = Appended(_short_volume_cache, finra[loaders[t].k])
    /\ IF loaders[t].k < Len(finra)
       THEN Goto(t, "load_short", loaders[t].k + 1)
       ELSE Goto(t, "build", 0)
    /\ UNCHANGED <<sec, finra, _ftd_cache, outside_tracker>>

\* _build_signal(ticker) and the return of analyze_stock
BuildSignal(t) ==
    /\ loaders[t].pc = "build"
    /\ loaders' = [loaders EXCEPT
           ![t].pc = "done",
           ![t].result = FtdBuildSignal(CacheGet(_ftd_cache, "TEST"),
                                        CacheGet(_short_volume_cache, "TEST"), 5)]
    /\ UNCHANGED <<sec, finra, _ftd_cache, _short_volume_cache, outside_tracker>>

TrackerNext ==
    \E t \in Workers :
        \/ EnsureFtd(t)
        \/ LoadFtdPeriod(t)
        \/ EnsureShort(t)
        \/ LoadShortDay(t)
        \/ BuildSignal(t)

TrackerSpec == TrackerInit /\ [][TrackerNext]_vars

(***************************************************************************)
(* StockRanker (src/src/ranking/ranker.py).  A stock record is a function  *)
(* from its keys to numbers: market_cap in millions, avg_volume in         *)
(* thousands, current_price in cents, the ratios and composite_score in    *)
(* hundredths; the thresholds are in the same units.  'error' holds a      *)
(* message, here a number.                                                 *)
(***************************************************************************)
MaxStocks == 3      \* length of a list given to the ranker

DEFAULT_FILTERS ==
    [min_market_cap |-> 100, min_avg_volume |-> 100, min_price |-> 100,
     max_price |-> 1000000, max_debt_to_equity |-> 200,
     min_current_ratio |-> 100, min_revenue_growth |-> 15,
     min_gross_margin |-> 20]

\* self.filters.get(key, default)
Filter(flt, key) ==
    IF key \in DOMAIN flt THEN flt[key] ELSE DEFAULT_FILTERS[key]

\* stock.get(key, 0)
Field(stock, key) == IF key \in DOMAIN stock THEN stock[key] ELSE 0

\* _passes_filters with the price ceiling left out
_passes_filters_NoCeiling(stock, flt) ==
    /\ "error" \notin DOMAIN stock
    /\ ~(Field(stock, "market_cap") < Filter(flt, "min_market_cap"))
    /\ ~(Field(stock, "avg_volume") < Filter(flt, "min_avg_volume"))
    /\ ~(Field(stock, "current_price") < Filter(flt, "min_price"))
    /\ ~(Field(stock, "debt_to_equity") > Filter(flt, "max_debt_to_equity"))
    /\ ~(Field(stock, "current_ratio") < Filter(flt, "min_current_ratio"))
    /\ ~(Field(stock, "revenue_growth") < Filter(flt, "min_revenue_growth"))
    /\ ~(Field(stock, "gross_margin") < Filter(flt, "min_gross_margin"))

\* StockRanker._passes_filters
_passes_filters(stock, flt) ==
    /\ "error" \notin DOMAIN stock
    /\ ~(Field(stock, "market_cap") < Filter(flt, "min_market_cap"))
    /\ ~(Field(stock, "avg_volume") < Filter(flt, "min_avg_volume"))
    /\ ~(Field(stock, "current_price") < Filter(flt, "min_price"))
    /\ ~(Field(stock, "current_price") > Filter(flt, "max_price"))
    /\ ~(Field(stock, "debt_to_equity") > Filter(flt, "max_debt_to_equity"))
    /\ ~(Field(stock, "current_ratio") < Filter(flt, "min_current_ratio"))
    /\ ~(Field(stock, "revenue_growth") < Filter(flt, "min_revenue_growth"))
    /\ ~(Field(stock, "gross_margin") < Filter(flt, "min_gross_margin"))

\* StockRanker.apply_filters: the loop over stocks_data
RECURSIVE apply_filters(_, _)
apply_filters(stocks, flt) ==
    IF stocks = <<>> THEN <<>>
    ELSE LET filtered == apply_filters(SubSeq(stocks, 1, Len(stocks) - 1), flt)
         IN  IF _passes_filters(stocks[Len(stocks)], flt)
             THEN Append(filtered, stocks[Len(stocks)])
             ELSE filtered

\* df.sort_values('composite_score', ascending=False) may give this order of
\* the rows: scores descending, rows without a score last; the order of
\* rows with equal scores is the sort algorithm's
SortedDescending(stocks, order) ==
    \A i, j \in 1..Len(stocks) :
        i < j =>
            \/ "composite_score" \notin DOMAIN stocks[order[j]]
            \/ /\ "composite_score" \in DOMAIN stocks[order[i]]
               /\ stocks[order[i]].composite_score >= stocks[order[j]].composite_score

\* the orders in which rank_stocks may return the rows
RowOrders(stocks) ==
    LET n == Len(stocks)
        perms == {o \in [1..n -> 1..n] : \A i, j \in 1..n : i # j => o[i] # o[j]}
    IN  IF \E i \in 1..n : "composite_score" \in DOMAIN stocks[i]
        THEN {o \in perms : SortedDescending(stocks, o)}
        ELSE {[i \in 1..n |-> i]}

\* df['rank'] = range(1, len(df) + 1) on the rows in this order
WithRank(stocks, order) ==
    [i \in 1..Len(stocks) |->
        [k \in DOMAIN stocks[order[i]] \cup {"rank"} |->
            IF k = "rank" THEN i ELSE stocks[order[i]][k]]]

\* a record that meets every default threshold exactly, with a score
Passing(ticker, score) ==
    [ticker |-> ticker, market_cap |-> 100, avg_volume |-> 100,
     current_price |-> 100, debt_to_equity |-> 200, current_ratio |-> 100,
     revenue_growth |-> 15, gross_margin |-> 20, composite_score |-> score]

Without(stock, key) == [k \in DOMAIN stock \ {key} |-> stock[k]]

FilterRecords ==
    { Passing(1, 70),
      [Passing(2, 90) EXCEPT !.current_price = 1000000],
      [Passing(3, 70) EXCEPT !.market_cap = 99],
      [Passing(4, 70) EXCEPT !.avg_volume = 99],
      [Passing(5, 70) EXCEPT !.current_price = 99],
      [Passing(6, 70) EXCEPT !.current_price = 1000001],
      [Passing(7, 70) EXCEPT !.debt_to_equity = 201],
      [Passing(8, 70) EXCEPT !.current_ratio = 99],
      [Passing(9, 70) EXCEPT !.revenue_growth = 14],
      [Passing(10, 70) EXCEPT !.gross_margin = 19],
      Without(Passing(11, 70), "debt_to_equity"),
      Without(Passing(12, 70), "gross_margin"),
      [k \in {"ticker", "error"} |-> 13],
      [k \in DOMAIN Passing(14, 70) \cup {"error"} |->
          IF k = "error" THEN 0 ELSE Passing(14, 70)[k]] }

RankRecords ==
    { Passing(1, 70), Passing(2, 70), Passing(3, 90), Passing(4, 0 - 10),
      Without(Passing(5, 0), "composite_score") }

\* the lists of at most n records of a set
StockLists(records, n) == UNION {[1..k -> records] : k \in 0..n}

FilterConfigs ==
    { [k \in {} |-> 0],
      [min_market_cap |-> 99, max_price |-> 100, min_gross_margin |-> 0] }

RankerInit ==
    /\ DefaultEngine
    /\ ProducersIdle
    /\ ThreadsIdle
    /\ RunIdle
    /\ CachesIdle
    /\ HelpersIdle
    /\ CongressIdle
    /\ LimiterIdle
    /\ filters \in FilterConfigs
    /\ rpc = "idle"
    /\ ranker_arg = <<>>
    /\ ranker_out = <<>>

\* StockRanker.apply_filters(stocks_data)
ApplyFilters ==
    /\ rpc = "idle"
    /\ \E stocks \in StockLists(FilterRecords, MaxStocks) :
           /\ ranker_arg' = stocks
           /\ ranker_out' = apply_filters(stocks, filters)
    /\ rpc' = "apply_filters"
    /\ UNCHANGED <<filters, outside_ranker>>

\* StockRanker.rank_stocks(stocks_data): the rows of the DataFrame
RankStocks ==
    /\ rpc = "idle"
    /\ \E stocks \in StockLists(RankRecords, MaxStocks) :
           /\ ranker_arg' = stocks
           /\ \E order \in RowOrders(stocks) :
                  ranker_out' = WithRank(stocks, order)
    /\ rpc' = "rank_stocks"
    /\ UNCHANGED <<filters, outside_ranker>>

\* the caller takes the result
RankerReturn ==
    /\ rpc # "idle"
    /\ rpc' = "idle"
    /\ ranker_arg' = <<>>
    /\ ranker_out' = <<>>
    /\ UNCHANGED <<filters, outside_ranker>>

RankerNext ==
    \/ ApplyFilters
    \/ RankStocks
    \/ RankerReturn

RankerSpec == RankerInit /\ [][RankerNext]_vars

(***************************************************************************)
(* The congress tracker's cache over the calls of one tracker               *)
(* (src/src/signals/congress_trades.py).  Time is in watches of 8 hours.   *)
(***************************************************************************)
MaxWall == 7        \* watches the clock of the congress tracker advances
MaxRequests == 3    \* HTTP requests of one congress tracker
cache_ttl == 3       \* 86400 seconds

\* what House Stock Watcher answers to a request
CongressAnswers ==
    {Failure(kind) : kind \in {"Timeout", "HTTPError", "ValueError"}}
        \cup {Payload(0, data) : data \in CongressBases \cup
                 { <<Trade("TEST", "purchase", 3, "A", "$1,001 - $15,000")>> }}

\* _fetch_all_trades with a cache that is still fresh at now = timestamp + ttl
_fetch_all_trades_Inclusive(cached, timestamp, now, up, latency) ==
    IF ~cached.none /\ now - timestamp <= cache_ttl
    THEN [st |-> "ok", kind |-> "", now |-> now, data |-> cached.data,
          cached |-> cached, timestamp |-> timestamp, requests |-> 0]
    ELSE IF up.st = "fail"
    THEN [st |-> "fail", kind |-> up.kind, now |-> now + latency, data |-> <<>>,
          cached |-> cached, timestamp |-> timestamp, requests |-> 1]
    ELSE [st |-> "ok", kind |-> "", now |-> now + latency, data |-> up.data,
          cached |-> CachedTrades(up.data), timestamp |-> now + latency,
          requests |-> 1]

\* CongressTradesTracker._fetch_all_trades: the dataset returned or the
\* exception raised, the cache and the timestamp it leaves, the requests it
\* issued and the time at its end; the request takes latency watches
_fetch_all_trades(cached, timestamp, now, up, latency) ==
    IF ~cached.none /\ now - timestamp < cache_ttl
    THEN [st |-> "ok", kind |-> "", now |-> now, data |-> cached.data,
          cached |-> cached, timestamp |-> timestamp, requests |-> 0]
    ELSE IF up.st = "fail"
    THEN [st |-> "fail", kind |-> up.kind, now |-> now + latency, data |-> <<>>,
          cached |-> cached, timestamp |-> timestamp, requests |-> 1]
    ELSE [st |-> "ok", kind |-> "", now |-> now + latency, data |-> up.data,
          cached |-> CachedTrades(up.data), timestamp |-> now + latency,
          requests |-> 1]

\* the state a call of the tracker leaves: got is what _fetch_all_trades did
CongressReturns(entry, symbols, got) ==
    /\ requests_sent + got.requests <= MaxRequests
    /\ got.now <= MaxWall
    /\ wall' = got.now
    /\ _cached_trades' = got.cached
    /\ _cache_timestamp' = got.timestamp
    /\ requests_sent' = requests_sent + got.requests
    /\ fetched' = [st |-> "returned", entry |-> entry, at |-> wall,
                   before |-> <<_cached_trades, _cache_timestamp>>,
                   requests |-> got.requests, fetch |-> got.st,
                   data |-> got.data,
                   out |-> [i \in DOMAIN symbols |->
                              CongressAnalyze(Call(symbols[i], entry, 0),
                                  [got EXCEPT !.now = Days(Today) + 8 * got.now])]]

CongressInit ==
    /\ DefaultEngine
    /\ ProducersIdle
    /\ ThreadsIdle
    /\ RunIdle
    /\ CachesIdle
    /\ RankerIdle
    /\ HelpersIdle
    /\ CongressIdle
    /\ LimiterIdle

\* CongressTradesTracker.analyze_stock(ticker)
CachedAnalyzeStock ==
    /\ \E ticker \in {"TEST", "test"}, up \in CongressAnswers, latency \in {0, 1} :
           CongressReturns("analyze_stock", <<ticker>>,
               _fetch_all_trades(_cached_trades, _cache_timestamp, wall, up,
                                 latency))
    /\ UNCHANGED outside_congress

\* CongressTradesTracker.analyze_batch(tickers)
CachedAnalyzeBatch ==
    /\ \E symbols \in {<<>>, <<"TEST">>, <<"TEST", "GME">>},
          up \in CongressAnswers, latency \in {0, 1} :
           CongressReturns("analyze_batch", symbols,
               _fetch_all_trades(_cached_trades, _cache_timestamp, wall, up,
                                 latency))
    /\ UNCHANGED outside_congress

\* a watch passes
CongressTick ==
    /\ wall < MaxWall
    /\ wall' = wall + 1
    /\ UNCHANGED <<_cached_trades, _cache_timestamp, requests_sent, fetched,
                   outside_congress>>

CongressNext ==
    \/ CachedAnalyzeStock
    \/ CachedAnalyzeBatch
    \/ CongressTick

CongressSpec == CongressInit /\ [][CongressNext]_vars

(***************************************************************************)
(* One engine scoring a dict and then the same dict with one score raised. *)
(***************************************************************************)
\* the configurations of Configs and two more pairs of confluence thresholds
RaiseConfigs ==
    Configs \cup
    { Config({"dark_flow_alert_min_signals", "strong_signal_min_signals"},
             NoWeights, <<>>, 1, 3),
      Config({"weights", "dark_flow_alert_min_signals",
              "strong_signal_min_signals"},
             [k \in {"insider_flow", "dark_pool"} |-> 40], <<>>, 2, 2) }

\* the base dicts, and TwoDark with one key that is no finite number
RaiseInputs ==
    Bases \cup {(k :> v) @@ TwoDark :
                  k \in ScoreKeys, v \in {None, Nan, Str(<<"7", "5">>)}}

RaiseInit ==
    /\ config \in RaiseConfigs
    /\ weights = _load_weights(config)
    /\ dark_signal_keys =
           ConfigGet(config, "dark_signal_keys", DEFAULT_DARK_SIGNAL_KEYS)
    /\ dark_flow_min = ConfigGet(config, "dark_flow_alert_min_signals", 3)
    /\ strong_signal_min = ConfigGet(config, "strong_signal_min_signals", 2)
    /\ Idle
    /\ ProducersIdle
    /\ ThreadsIdle
    /\ RunIdle
    /\ CachesIdle
    /\ RestIdle

\* calculate_conviction_score(stock_data), then the same call on the dict
\* with the score of one key raised
ScoreRaised ==
    /\ pc = "idle"
    /\ \E sd \in RaiseInputs, k \in ScoreKeys, low, high \in NumericValues :
           /\ low.v < high.v
           /\ stock_data' = (k :> low) @@ sd
           /\ result' = calculate_conviction_score((k :> low) @@ sd)
           /\ fn_arg' = (k :> high) @@ sd
           /\ fn_out' = calculate_conviction_score((k :> high) @@ sd)
    /\ pc' = "calculate_conviction_score"
    /\ fn' = "calculate_conviction_score"
    /\ UNCHANGED <<engine, risk, level_arg, position, stocks_data, results,
                   producer_side, pool_side, run_side, cache_side, ranker_side,
                   congress_side, limiter_side>>

\* the caller takes both return values
RaiseReturn ==
    /\ pc # "idle"
    /\ pc' = "idle"
    /\ stock_data' = EmptyDict
    /\ result' = NoResult
    /\ fn' = "idle"
    /\ fn_arg' = <<>>
    /\ fn_out' = <<>>
    /\ UNCHANGED <<engine, risk, level_arg, position, stocks_data, results,
                   producer_side, pool_side, run_side, cache_side, ranker_side,
                   congress_side, limiter_side>>

RaiseNext ==
    \/ ScoreRaised
    \/ RaiseReturn

RaiseSpec == RaiseInit /\ [][RaiseNext]_vars

(***************************************************************************)
(* The SEC rate limit of the one InsiderFlowDetector that the pool's       *)
(* workers share (src/src/signals/insider_flow.py).  Time is in halves of  *)
(* rate_limit_delay.                                                       *)
(***************************************************************************)
MaxMono == 5        \* ticks the monotonic clock advances
MaxSent == 4        \* SEC requests issued
rate_limit_delay == 2

LimiterInit ==
    /\ DefaultEngine
    /\ ProducersIdle
    /\ ThreadsIdle
    /\ RunIdle
    /\ CachesIdle
    /\ RankerIdle
    /\ HelpersIdle
    /\ CongressIdle
    /\ LimiterIdle

\* _rate_limit, lines 185-187: the worker reads the clock and
\* _last_request_time and decides whether to sleep
EnterRateLimit(w) ==
    /\ callers[w].pc = "idle"
    /\ Len(request_times) + Cardinality({v \in Workers : callers[v].pc # "idle"})
           < MaxSent
    /\ callers' = [callers EXCEPT ![w] =
           IF mono - _last_request_time < rate_limit_delay
           THEN [pc |-> "sleep",
                 wake |-> mono + rate_limit_delay - (mono - _last_request_time)]
           ELSE [pc |-> "stamp", wake |-> 0]]
    /\ UNCHANGED <<mono, _last_request_time, request_times, outside_limiter>>

\* _rate_limit, line 188: time.sleep returns once the time has passed
Wake(w) ==
    /\ callers[w].pc = "sleep"
    /\ mono >= callers[w].wake
    /\ callers' = [callers EXCEPT ![w] = [pc |-> "stamp", wake |-> 0]]
    /\ UNCHANGED <<mono, _last_request_time, request_times, outside_limiter>>

\* _rate_limit, line 189: self._last_request_time = time.monotonic(), and
\* the SEC request of _fetch_form4_filings that follows at once
Stamp(w) ==
    /\ callers[w].pc = "stamp"
    /\ _last_request_time' = mono
    /\ request_times' = Append(request_times, mono)
    /\ callers' = [callers EXCEPT ![w] = NoCaller]
    /\ UNCHANGED <<mono, outside_limiter>>

\* half a rate_limit_delay passes
Elapse ==
    /\ mono < MaxMono
    /\ mono' = mono + 1
    /\ UNCHANGED <<_last_request_time, callers, request_times, outside_limiter>>

LimiterNext ==
    \/ \E w \in Workers : EnterRateLimit(w)
    \/ \E w \in Workers : Wake(w)
    \/ \E w \in Workers : Stamp(w)
    \/ Elapse

LimiterSpec == LimiterInit /\ [][LimiterNext]_vars

(***************************************************************************)
(* The producers' static helpers, applied on their own to every argument   *)
(* of a bounded set.                                                       *)
(***************************************************************************)
MaxQuantities == 14 \* length of a quantity sequence
MaxSeries == 6      \* length of a series of short-volume ratios
MaxTransactions == 4 \* length of a list of insider transactions
FirstRatio == 50
DailyChanges == {0 - 2, 0 - 1, 0, 1}

\* the sequences of at most n quantities around the threshold
QuantityLists(n) ==
    UNION {[1..k -> {THRESHOLD_QUANTITY - 1, THRESHOLD_QUANTITY}] : k \in 0..n}

\* the series of at most n short-volume ratios, in hundredths, that begin at
\* FirstRatio and change by one of DailyChanges from a day to the next
RatioLists(n) ==
    {<<>>} \cup
    UNION {{[i \in 1..k |-> FirstRatio + Sum(SubSeq(changes, 1, i - 1))] :
               changes \in [1..(k - 1) -> DailyChanges]} : k \in 1..n}

\* transactions of four insiders: a repeated buyer, buys 14 and 15 days after
\* the first one, sells inside the window and a buy without a date
ClusterRecords ==
    { Txn("buy", "Chief Executive Officer", 1000000, "A", 10),
      Txn("buy", "Director", 60000, "A", 12),
      Txn("buy", "", 10000, "C", 20),
      Txn("buy", "Director", 60000, "B", 24),
      Txn("buy", "", 10000, "B", 25),
      Txn("sell", "CFO", 2000000, "C", 11),
      Txn("sell", "Director", 60000, "D", 12),
      Txn("buy", "CFO", 500000, "D", NoDate) }

\* the lists of at most n transactions
TransactionLists(n) ==
    UNION {[1..k -> ClusterRecords] : k \in 0..n}

HelperInit ==
    /\ DefaultEngine
    /\ ProducersIdle
    /\ ThreadsIdle
    /\ RunIdle
    /\ CachesIdle
    /\ RankerIdle
    /\ HelpersIdle
    /\ CongressIdle
    /\ LimiterIdle

\* FTDShortTracker._check_threshold_list(quantities)
CheckThresholdList ==
    /\ fn = "idle"
    /\ \E quantities \in QuantityLists(MaxQuantities) :
           /\ fn_arg' = quantities
           /\ fn_out' = _check_threshold_list(quantities)
    /\ fn' = "_check_threshold_list"
    /\ UNCHANGED outside_helper

\* DarkPoolAnalyzer._consecutive_trend(series)
ConsecutiveTrend ==
    /\ fn = "idle"
    /\ \E series \in RatioLists(MaxSeries) :
           /\ fn_arg' = series
           /\ fn_out' = _consecutive_trend(series)
    /\ fn' = "_consecutive_trend"
    /\ UNCHANGED outside_helper

\* DarkPoolAnalyzer._score_signals(ticker, data) on rows of one volume
ScoreSignals ==
    /\ fn = "idle"
    /\ \E series \in RatioLists(MaxSeries) \ {<<>>} :
           /\ fn_arg' = series
           /\ fn_out' = DarkPoolScoreSignals(
                            [i \in DOMAIN series |-> Row(series[i], 1)])
    /\ fn' = "_score_signals"
    /\ UNCHANGED outside_helper

\* InsiderFlowDetector._detect_clusters(transactions)
DetectClusters ==
    /\ fn = "idle"
    /\ \E transactions \in TransactionLists(MaxTransactions) :
           /\ fn_arg' = transactions
           /\ fn_out' =
                  [cluster_size |-> InsiderClusterSize(transactions),
                   cluster_detected |->
                       InsiderClusterSize(transactions) >= CLUSTER_MODERATE_MIN]
    /\ fn' = "_detect_clusters"
    /\ UNCHANGED outside_helper

\* InsiderFlowDetector._calculate_score(transactions, cluster_info,
\* price_near_dip) with the cluster_info of _detect_clusters, beside the score
\* of the same call with an empty cluster_info
CalculateScore ==
    /\ fn = "idle"
    /\ \E transactions \in TransactionLists(MaxTransactions),
          price_near_dip \in BOOLEAN :
           /\ fn_arg' = [transactions |-> transactions,
                         price_near_dip |-> price_near_dip]
           /\ fn_out' =
                  [cluster_size |-> InsiderClusterSize(transactions),
                   score |-> InsiderCalculateScore(transactions,
                                 InsiderClusterSize(transactions), price_near_dip),
                   no_cluster |-> InsiderCalculateScore(transactions, 0,
                                      price_near_dip)]
    /\ fn' = "_calculate_score"
    /\ UNCHANGED outside_helper

\* the caller takes the result
HelperReturn ==
    /\ fn # "idle"
    /\ fn' = "idle"
    /\ fn_arg' = <<>>
    /\ fn_out' = <<>>
    /\ UNCHANGED outside_helper

HelperNext ==
    \/ CheckThresholdList
    \/ ConsecutiveTrend
    \/ ScoreSignals
    \/ DetectClusters
    \/ CalculateScore
    \/ HelperReturn

HelperSpec == HelperInit /\ [][HelperNext]_vars

(***************************************************************************)
(* Properties of the signal producers.                                     *)
(***************************************************************************)
\* a producer's call has returned a result dict
ProducerReturned == ppc # "idle" /\ out.st = "ok"
\* a producer's call has raised
ProducerRaised == ppc # "idle" /\ out.st \notin {"ok", "none"}

\* C11: every score a producer returns, from analyze_stock or analyze_batch,
\* on a payload, an empty payload or a failed fetch, lies in [0, 100].
C11_ScoreInRange ==
    ProducerReturned => out.score >= 0 /\ out.score <= Pts(100)

\* insider evidence worth more than 100 points comes back as 100
C11_Witness ==
    /\ ppc = "insider"
    /\ ProducerReturned
    /\ upstream.st = "ok"
    /\ InsiderRawScore(upstream.data, InsiderClusterSize(upstream.data),
                       call.setting) > Pts(100)
    /\ out.score = Pts(100)

\* the neutral baseline of each producer
NeutralBaseline(producer) ==
    CASE producer = "insider" -> InsiderNeutral("")
      [] producer = "dark_pool" -> DarkPoolNeutral("")
      [] producer = "options" -> OptionsNeutral
      [] producer = "congress" -> CongressNeutral("")
      [] producer = "ftd" -> FtdNeutral
      [] producer = "social" -> SocialNeutral("")

\* C12: analyze_stock never raises when the fetch or parse layer fails
\* (network error, HTTP error, unparseable or misshapen payload): the call
\* returns the producer's neutral baseline score and the neutral direction.
C12_FailureIsNeutral ==
    (ppc # "idle" /\ call.via = "analyze_stock" /\ upstream.st = "fail") =>
        /\ out.st = "ok"
        /\ out.score = NeutralBaseline(ppc).score
        /\ out.direction = "neutral"


\* C18: whenever the classified direction is bearish, the options score lies
\* in the bearish band [0, 30], whatever the intensity of the evidence.
C18_BearishBand ==
    (ppc = "options" /\ ProducerReturned /\ out.direction = "bearish") =>
        out.score >= 0 /\ out.score <= Pts(30)


\* C19: short_squeeze_potential is true exactly when the FTD spike ratio is at
\* least the configured spike threshold, the estimated days-to-cover is at
\* least 2 and the short-ratio trend is 'decreasing', all at once; the
\* direction 'squeeze_potential' comes only with that boolean and a score of
\* at least 70.
C19_SqueezePotential ==
    (ppc = "ftd" /\ ProducerReturned) =>
        LET ftd == out.detail.ftd
            short == out.detail.short
        IN  /\ out.detail.short_squeeze_potential <=>
                  /\ ftd.total > 0
                  /\ ftd.current * ftd.count >= call.setting * ftd.total
                  /\ short.short >= 2 * short.cover
                  /\ short.ratio_trend = "decreasing"
            /\ out.direction = "squeeze_potential" =>
                  out.detail.short_squeeze_potential /\ out.score >= Pts(70)

\* a fivefold spike on a covered short position of 1.7 / 0.3 days-to-cover
C19_Witness ==
    /\ ppc = "ftd"
    /\ ProducerReturned
    /\ call.setting = 5
    /\ upstream.st = "ok"
    /\ out.detail.short_squeeze_potential
    /\ out.direction = "squeeze_potential"
    /\ out.score >= Pts(70)


\* the trades of a payload that qualify for the called ticker: purchases
\* disclosed within the lookback window
C20_Qualifying ==
    {i \in 1..Len(upstream.data) :
        /\ UpperStrip(upstream.data[i].ticker) = UpperStrip(call.ticker)
        /\ IsPurchase(upstream.data[i].type)
        /\ upstream.data[i].disclosure_date # NoDate
        /\ upstream.now - Days(upstream.data[i].disclosure_date) <= Days(lookback_days)}

\* the politicians among them who disclosed within the cluster window
C20_Cluster ==
    {GetOr(upstream.data[i].representative, "Unknown") :
        i \in {j \in C20_Qualifying :
                 upstream.now - Days(upstream.data[j].disclosure_date)
                     <= Days(cluster_window_days)}}

\* C20: with at least one qualifying purchase the base score is 90 for three
\* or more distinct politicians in the cluster window, 75 for exactly two,
\* otherwise 60 when the largest amount midpoint is at least 100,000 and 30
\* when it is not; +10 when the latest disclosure is within 7 days, +5 for
\* five or more purchases, capped at 100.  A ticker with only sales and
\* disclosures older than the lookback scores 0.0, neutral, with no trades.
C20_CongressTiers ==
    (ppc = "congress" /\ ProducerReturned /\ upstream.st = "ok") =>
        LET q == C20_Qualifying
            largest == SetMax({_parse_amount_to_midpoint(GetOr(upstream.data[i].amount, "")) :
                                 i \in q})
            base == IF Cardinality(C20_Cluster) >= 3 THEN 90
                    ELSE IF Cardinality(C20_Cluster) = 2 THEN 75
                    ELSE IF largest >= 100000 THEN 60
                    ELSE 30
            recent == IF \E i \in q : upstream.now - Days(upstream.data[i].disclosure_date)
                                          <= Days(RECENCY_DAYS)
                      THEN 10 ELSE 0
            many == IF Cardinality(q) >= 5 THEN 5 ELSE 0
        IN  /\ out.detail.count = Cardinality(q)
            /\ q = {} => out.score = 0 /\ out.direction = "neutral"
            /\ q # {} => out.score = Pts(SetMin({100, base + recent + many}))

\* three politicians, six purchases, the latest seven days old: 105 capped
C20_Witness ==
    /\ ppc = "congress"
    /\ ProducerReturned
    /\ upstream.st = "ok"
    /\ Cardinality(C20_Cluster) >= 3
    /\ Cardinality(C20_Qualifying) >= 5
    /\ out.score = Pts(100)


(***************************************************************************)
(* Properties of the shared engine.                                        *)
(***************************************************************************)
\* what a call on an engine used by nobody else returns
Sequential(op, sd) ==
    IF op = "calculate_conviction_score" THEN calculate_conviction_score(sd)
    ELSE assess_risk(sd)

\* C16: calculate_conviction_score and assess_risk never write the engine's
\* weights, dark-signal keys or thresholds and never modify the input dict;
\* under every interleaving of the workers each call returns what a
\* sequential call with the same input returns, and calls with equal inputs
\* return equal results.
C16_PureEngine ==
    /\ [](\A t \in Workers :
            threads[t].pc = "done" =>
                threads[t].result = Sequential(threads[t].op, threads[t].stock_data))
    /\ [](\A t, u \in Workers :
            (/\ threads[t].pc = "done" /\ threads[u].pc = "done"
             /\ threads[t].op = threads[u].op
             /\ threads[t].stock_data = threads[u].stock_data)
                => threads[t].result = threads[u].result)
    /\ [][/\ engine' = engine
          /\ \A t \in Workers :
                (threads[t].pc # "idle" /\ threads'[t].pc # "idle")
                    => threads'[t].stock_data = threads[t].stock_data]_vars

\* a call has returned a result while another worker is between the steps
\* of a call on the same engine
C16_Witness ==
    \E t, u \in Workers :
        /\ threads[t].pc = "done"
        /\ threads[t].op = "calculate_conviction_score"
        /\ threads[t].result.st = "ok"
        /\ threads[t].result.active_dark_signal_count = 2
        /\ threads[u].pc = "compose"
        /\ threads[u].stock_data # threads[t].stock_data

(***************************************************************************)
(* Properties of run_analysis.                                             *)
(***************************************************************************)
\* the futures whose stock dict the loop body has recorded
Collected == {i \in 1..Len(futures) : futures[i].st = "collected"}

\* C13: a ticker whose market data is available, analysed while the data
\* sources of the installed detectors fail, still gets a conviction result
\* and is recorded among the analysed stocks: it carries no 'error' key and
\* is not in failed_stocks.
C13_ProducerErrorNotFatal ==
    \A i \in Collected :
        (/\ futures[i].scenario.market = "ok"
         /\ futures[i].scenario.condition \in FailureKinds
         /\ signal_detectors # {})
            => /\ "conviction_score" \in DOMAIN futures[i].stock_data
               /\ "error" \notin DOMAIN futures[i].stock_data
               /\ \E j \in 1..Len(analyzed_stocks) :
                      analyzed_stocks[j] = futures[i].stock_data
               /\ \A j \in 1..Len(failed_stocks) :
                      failed_stocks[j][1] # tickers[i]

\* C17: the completion counter is the number of recorded tickers, changes
\* only by +1 and only while the lock is held, and equals the number of
\* submitted tickers when the pool is left; every recorded ticker is in the
\* one list its stock dict selects, so the two lists together hold every
\* submitted ticker once, also when a worker's analysis raised.
C17_ProgressBookkeeping ==
    /\ [](/\ completed_count = Cardinality(Collected)
          /\ Len(analyzed_stocks) =
                 Cardinality({i \in Collected :
                                 Recorded(futures[i].stock_data) = "analyzed"})
          /\ Len(failed_stocks) =
                 Cardinality({i \in Collected :
                                 Recorded(futures[i].stock_data) = "failed"})
          /\ Len(analyzed_stocks) + Len(failed_stocks) = completed_count
          /\ phase # "aborted"
          /\ phase = "finished" =>
                 /\ completed_count = Len(tickers)
                 /\ Len(analyzed_stocks) + Len(failed_stocks) = Len(tickers))
    /\ [][completed_count' # completed_count =>
              /\ completed_count' = completed_count + 1
              /\ progress_lock # 0
              /\ progress_lock' = 0]_vars

\* a run of two tickers is over: one worker's analysis raised and is in
\* failed_stocks with the exception, the other ticker was analysed
C17_Witness ==
    /\ phase = "finished"
    /\ Len(tickers) = 2
    /\ completed_count = 2
    /\ Len(analyzed_stocks) = 1
    /\ Len(failed_stocks) = 1
    /\ failed_stocks[1][2] = Msg("RuntimeError")

(***************************************************************************)
(* Properties of the producers' caches.                                    *)
(***************************************************************************)
\* the latest fetch of the scorer failed
LastFetchFailed ==
    fetch_log # <<>> /\ fetch_log[Len(fetch_log)] = "failed"

\* C14: an analyze_stock call whose fetch failed returns the neutral
\* baseline, not a score from older data, and once a fetch has failed the
\* producer does not attempt it again in a later call.
C14_NoRetry ==
    /\ []((last_call.st = "returned" /\ last_call.fetch = "failed")
              => last_call.out = SocialNeutral("apewisdom_unavailable"))
    /\ [][LastFetchFailed => fetch_log' = fetch_log]_vars

\* two results of _build_signal show the same values
SameSignal(a, b) ==
    /\ a.score = b.score
    /\ a.direction = b.direction
    /\ a.detail.ftd.current = b.detail.ftd.current
    /\ a.detail.ftd.total * b.detail.ftd.count = b.detail.ftd.total * a.detail.ftd.count
    /\ a.detail.ftd.trend = b.detail.ftd.trend
    /\ a.detail.ftd.on_threshold_list = b.detail.ftd.on_threshold_list
    /\ a.detail.short.ratio_trend = b.detail.short.ratio_trend
    /\ a.detail.short.short * b.detail.short.cover =
           b.detail.short.short * a.detail.short.cover
    /\ a.detail.short_squeeze_potential = b.detail.short_squeeze_potential

\* C15: once every worker has returned, each cache holds what one single
\* load puts there, and every worker's result is the one computed from the
\* caches of a single load.
C15_HarmlessRace ==
    (\A t \in Workers : loaders[t].pc = "done") =>
        /\ _ftd_cache = Loaded(sec)
        /\ _short_volume_cache = Loaded(finra)
        /\ \A t \in Workers :
               SameSignal(loaders[t].result,
                          FtdBuildSignal(CacheGet(Loaded(sec), "TEST"),
                                         CacheGet(Loaded(finra), "TEST"), 5))

(***************************************************************************)
(* Properties of single producers.                                         *)
(***************************************************************************)
\* the social scorer has returned the score of a ticker found in the data
SocialScored ==
    ppc = "social" /\ out.st = "ok" /\ "rank" \in DOMAIN out.detail

\* C21: a ticker of the top 10 whose velocity is below 0.8 has direction
\* 'contrarian_warning', and no ticker of the top 10 with a velocity below 1
\* has direction 'bullish_momentum', whatever its score.
C21_ContrarianWarning ==
    (SocialScored /\ out.detail.rank <= RANK_TOP_10) =>
        /\ 5 * out.detail.velocity[1] < 4 * out.detail.velocity[2]
               => out.direction = "contrarian_warning"
        /\ out.detail.velocity[1] < out.detail.velocity[2]
               => out.direction # "bullish_momentum"

\* a top-10 ticker with a score above 50 and a velocity of 0.4 is warned of
C21_Witness ==
    /\ SocialScored
    /\ out.detail.rank = 10
    /\ out.score >= Pts(50)
    /\ 5 * out.detail.velocity[1] < 4 * out.detail.velocity[2]
    /\ out.direction = "contrarian_warning"

(***************************************************************************)
(* Properties of the ranker.                                               *)
(***************************************************************************)
\* the record carries no error and meets every threshold of the filters
Meets(stock) ==
    /\ "error" \notin DOMAIN stock
    /\ Field(stock, "market_cap") >= Filter(filters, "min_market_cap")
    /\ Field(stock, "avg_volume") >= Filter(filters, "min_avg_volume")
    /\ Field(stock, "current_price") >= Filter(filters, "min_price")
    /\ Field(stock, "current_price") <= Filter(filters, "max_price")
    /\ Field(stock, "debt_to_equity") <= Filter(filters, "max_debt_to_equity")
    /\ Field(stock, "current_ratio") >= Filter(filters, "min_current_ratio")
    /\ Field(stock, "revenue_growth") >= Filter(filters, "min_revenue_growth")
    /\ Field(stock, "gross_margin") >= Filter(filters, "min_gross_margin")

\* the rows are the given records, each once, in some order
SameRows(rows, stocks) ==
    /\ Len(rows) = Len(stocks)
    /\ \E o \in [1..Len(stocks) -> 1..Len(stocks)] :
           /\ \A i, j \in 1..Len(stocks) : i # j => o[i] # o[j]
           /\ \A i \in 1..Len(stocks) : Without(rows[i], "rank") = stocks[o[i]]

\* C22: apply_filters returns, in input order, exactly the records that
\* carry no error and meet every threshold; rank_stocks returns all given
\* records with ranks 1..N in the order of the rows, and no row with a
\* lower composite_score stands before a row with a higher one.
C22_FilterAndRank ==
    /\ rpc = "apply_filters" => ranker_out = SelectSeq(ranker_arg, Meets)
    /\ rpc = "rank_stocks" =>
           /\ SameRows(ranker_out, ranker_arg)
           /\ \A i \in 1..Len(ranker_out) : ranker_out[i].rank = i
           /\ \A i, j \in 1..Len(ranker_out) :
                  (/\ i < j
                   /\ "composite_score" \in DOMAIN ranker_out[i]
                   /\ "composite_score" \in DOMAIN ranker_out[j])
                      => ranker_out[i].composite_score >= ranker_out[j].composite_score

\* three records were filtered down to the one at the price ceiling, and
\* three records with scores 70, 90, 70 were ranked with 90 first
C22_Witness ==
    \/ /\ rpc = "apply_filters"
       /\ Len(ranker_arg) = 3
       /\ Len(ranker_out) = 1
       /\ ranker_out[1].current_price = Filter(filters, "max_price")
    \/ /\ rpc = "rank_stocks"
       /\ Len(ranker_arg) = 3
       /\ \A i \in 1..3 : "composite_score" \in DOMAIN ranker_arg[i]
       /\ ranker_arg[2].composite_score = 90
       /\ ranker_out[1].composite_score = 90
       /\ ranker_out[2].composite_score = 70
       /\ ranker_out[3].composite_score = 70

(***************************************************************************)
(* Properties of the static helpers.                                       *)
(***************************************************************************)
\* the sequence holds THRESHOLD_LIST_DAYS consecutive elevated entries
HasElevatedRun(quantities) ==
    \E i \in 1..(Len(quantities) - THRESHOLD_LIST_DAYS + 1) :
        \A j \in i..(i + THRESHOLD_LIST_DAYS - 1) :
            quantities[j] >= THRESHOLD_QUANTITY

Streak(series, sign) ==
    SetMax({k \in 0..(Len(series) - 1) :
               \A i \in (Len(series) - k)..(Len(series) - 1) :
                   (series[i + 1] - series[i]) * sign > 0} \cup {0})

\* C24: _consecutive_trend returns the lengths of the trailing runs of strictly
\* negative and strictly positive changes, (0, 0) below two values, never two
\* non-zero counts; the label is 'declining' iff d >= 3, 'rising' iff r >= 3,
\* else 'stable', and d >= 5 sets the anomaly flag.
C24_StreakCounting ==
    /\ fn = "_consecutive_trend" =>
           /\ fn_out = <<Streak(fn_arg, 0 - 1), Streak(fn_arg, 1)>>
           /\ Len(fn_arg) < 2 => fn_out = <<0, 0>>
           /\ fn_out[1] = 0 \/ fn_out[2] = 0
           /\ (Len(fn_arg) >= 2 /\ fn_arg[Len(fn_arg)] = fn_arg[Len(fn_arg) - 1])
                  => fn_out = <<0, 0>>
    /\ fn = "_score_signals" =>
           /\ fn_out.detail.trend = "declining" <=> Streak(fn_arg, 0 - 1) >= 3
           /\ fn_out.detail.trend = "rising" <=> Streak(fn_arg, 1) >= 3
           /\ fn_out.detail.trend \in {"declining", "rising", "stable"}
           /\ Streak(fn_arg, 0 - 1) >= 5 => fn_out.detail.anomaly

C24_Witness ==
    \/ /\ fn = "_consecutive_trend"
       /\ fn_arg = <<50, 51, 51, 50, 48>>
       /\ fn_out = <<2, 0>>
    \/ /\ fn = "_score_signals"
       /\ Len(fn_arg) = 6
       /\ Streak(fn_arg, 0 - 1) = 5
       /\ fn_out.detail.trend = "declining"
       /\ fn_out.detail.anomaly
\* the distinct owners of the dated buys of the window that opens at the buy
\* at position i
WindowBuyers(transactions, i) ==
    {transactions[j].owner_name :
        j \in {k \in DOMAIN transactions :
                 /\ transactions[k].direction = "buy"
                 /\ transactions[k].date # NoDate
                 /\ transactions[k].date >= transactions[i].date
                 /\ transactions[k].date
                        <= transactions[i].date + CLUSTER_WINDOW_DAYS}}

\* the largest number of distinct buyers in the window of one dated buy
LargestCluster(transactions) ==
    SetMax({0} \cup
           {Cardinality(WindowBuyers(transactions, i)) :
               i \in {k \in DOMAIN transactions :
                        /\ transactions[k].direction = "buy"
                        /\ transactions[k].date # NoDate}})

\* C25: cluster_size is the largest number of distinct owner names among the
\* dated buys within cluster_window_days after some dated buy, sells and
\* undated buys never contribute, cluster_detected iff cluster_size >= 2; the
\* score gains 30 for a cluster of 3 or more, 15 for one of 2, nothing below.
C25_ClusterDetection ==
    /\ fn = "_detect_clusters" =>
           /\ fn_out.cluster_size = LargestCluster(fn_arg)
           /\ fn_out.cluster_detected <=> fn_out.cluster_size >= 2
    /\ (fn = "_calculate_score" /\ fn_out.no_cluster > 0
            /\ fn_out.score < Pts(100)) =>
           fn_out.score - fn_out.no_cluster =
               IF fn_out.cluster_size >= 3 THEN Pts(30)
               ELSE IF fn_out.cluster_size = 2 THEN Pts(15)
               ELSE 0

C25_Witness ==
    \/ /\ fn = "_detect_clusters"
       /\ Len(fn_arg) = 4
       /\ \E i, j \in 1..4 :
              /\ i # j
              /\ fn_arg[i].direction = "buy" /\ fn_arg[j].direction = "buy"
              /\ fn_arg[i].owner_name = fn_arg[j].owner_name
              /\ fn_arg[i].date # NoDate /\ fn_arg[j].date = fn_arg[i].date + 2
       /\ \E i \in 1..4 : fn_arg[i].direction = "sell"
       /\ fn_out.cluster_size = 2
       /\ fn_out.cluster_detected
    \/ /\ fn = "_calculate_score"
       /\ fn_out.cluster_size = 3
       /\ fn_out.no_cluster > 0
       /\ fn_out.score = fn_out.no_cluster + Pts(30)
(***************************************************************************)
(* Properties of the congress tracker's cache.                             *)
(***************************************************************************)
\* the last call began with a dataset in the cache that was younger than the
\* time to live
BeganFresh ==
    /\ fetched # NoCallYet
    /\ ~fetched.before[1].none
    /\ fetched.at < fetched.before[2] + cache_ttl

WithinWindow ==
    _cache # None =>
        \A t \in DOMAIN _history :
            \A i \in DOMAIN _history[t] :
                _history[t][i][1] > _cache.timestamp - HISTORY_HOURS

\* C27: the history holds only snapshots of the last 48 hours before the most
\* recent fetch, for every ticker, and a call that fetched nothing or whose
\* fetch failed leaves cache and history unchanged.
C27_HistoryWindow ==
    /\ []WithinWindow
    /\ [][(fetch_log' = fetch_log \/ fetch_log'[Len(fetch_log')] # "ok")
              => (_cache' = _cache /\ _history' = _history)]_vars
(***************************************************************************)
(* Properties of the SEC rate limit.                                       *)
(***************************************************************************)
\* C28: any two consecutive SEC requests of the one detector are at least
\* rate_limit_delay apart, also when several workers use it at once.
C28_RateLimit ==
    \A i \in 1..(Len(request_times) - 1) :
        request_times[i + 1] - request_times[i] >= rate_limit_delay
(***************************************************************************)
(* Properties of the engine under a raised score.                          *)
(***************************************************************************)
\* the place of a conviction level in the order
\* TECHNICAL_ONLY < SINGLE_SIGNAL < STRONG_SIGNAL < DARK_FLOW_ALERT
LevelRank(level) ==
    CASE level = TECHNICAL_ONLY -> 0
      [] level = SINGLE_SIGNAL -> 1
      [] level = STRONG_SIGNAL -> 2
      [] level = DARK_FLOW_ALERT -> 3

\* no weight of the loaded table is negative
NonNegativeWeights == \A k \in WeightKeys : weights.num[k] >= 0

\* a dict and the dict with one score raised have both been scored
BothScored ==
    /\ fn = "calculate_conviction_score"
    /\ result.st = "ok"
    /\ fn_out.st = "ok"

\* C29: with a non-negative weight table, raising the score of one key never
\* lowers conviction_score, the active dark-signal count or the conviction
\* level, whatever the two confluence thresholds are.
C29_Monotone ==
    (BothScored /\ NonNegativeWeights) =>
        /\ fn_out.conviction_score >= result.conviction_score
        /\ fn_out.active_dark_signal_count >= result.active_dark_signal_count
        /\ LevelRank(fn_out.conviction_level)
               >= LevelRank(result.conviction_level)

C29_Witness ==
    /\ BothScored
    /\ NonNegativeWeights
    /\ dark_flow_min < strong_signal_min
    /\ result.conviction_level = TECHNICAL_ONLY
    /\ fn_out.conviction_level = DARK_FLOW_ALERT
    /\ fn_out.conviction_score > result.conviction_score
(***************************************************************************)
(* Properties of the risk of a ticker without insider data.                *)
(***************************************************************************)
\* the futures that hold the stock dict of a ticker for which the insider
\* detector returned its neutral fallback
InsiderFellBack ==
    {i \in 1..Len(futures) :
        /\ futures[i].st \in {"done", "collected"}
        /\ futures[i].scenario.market = "ok"
        /\ futures[i].scenario.condition # "data"
        /\ "insider" \in signal_detectors
        /\ "risk_level" \in DOMAIN futures[i].stock_data}

\* C30: the neutral fallback of a producer without data is not counted as a
\* bearish signal: the ticker's risk_level is the one it would have if the
\* insider score were absent, so no conflict points come from the fallback.
C30_NoDataNotBearish ==
    \A i \in InsiderFellBack :
        futures[i].stock_data["risk_level"] =
            Msg(assess_risk(Without(futures[i].stock_data,
                                    "insider_signal_score")).level)
====
